---- MODULE Spec2Model ----
(***************************************************************************)
(* State-machine model of the ficha-digital backend: the tables of its    *)
(* store and the request handlers that read and write them.                *)
(*                                                                         *)
(* Two revisions of index.js are in the source tree.  src/index.js has     *)
(* /api/submit-ficha, the paged list and the status change; the revision   *)
(* kept in src/unnamed/part_004 has the draft workflow (/api/affiliations  *)
(* create, update, present) and its own list and status change.  Every     *)
(* handler is modelled from its own text; handlers of the part_004         *)
(* revision carry the suffix Draft where the name would clash.             *)
(*                                                                         *)
(* A handler runs atomically between two awaits.  A handler with one       *)
(* query is one action; a handler that reads and then writes is a first    *)
(* action (middleware, validation, SELECT, checks) that leaves a pending   *)
(* statement in its slot, and ExecWrite, which runs the statement and      *)
(* answers.  Other requests may run in between.                            *)
(*                                                                         *)
(* A request enters the model with the identity of its verified token      *)
(* (req.user, as authenticateToken leaves it); the decoding of the         *)
(* Authorization header is not part of the model.  Messages are written    *)
(* without diacritics.                                                     *)
(***************************************************************************)
EXTENDS Integers, Sequences, FiniteSets, TLC

VARIABLES
    affiliations,   \* the affiliations table: a sequence of rows, id = index
    now,            \* the database clock read by NOW()
    inflight,       \* per slot: the request being handled and its pending statement
    last,           \* the request answered most recently, with its response
    users,          \* the users table: a set of rows
    planes,         \* the planes table: a set of rows
    empresas,       \* the empresas table: a set of rows
    fotos,          \* the afiliacion_fotos table: a sequence of rows
    serial,         \* per table: the last value its id sequence gave
    browsers,       \* the rendering-engine instances launched: a sequence of records
    tokens          \* the tokens signed at login, as their bearers hold them

\* The tables, and the processes, that the handlers of the affiliations
\* workflow leave alone.
otherTables == <<users, planes, empresas, fotos, serial, browsers, tokens>>

vars ==
    <<affiliations, now, inflight, last, users, planes, empresas, fotos, serial,
      browsers>>

----------------------------------------------------------------------------
(* Bounds of the model *)

MaxAff == 1        \* rows the table may hold while requests interleave
MaxReq == 2        \* requests handled concurrently
MaxListed == 2     \* rows the table may hold while it is listed
MaxListing == 1    \* list requests between their two queries
MaxFotos == 1      \* rows the afiliacion_fotos table may hold
MaxRefId == 3      \* ids the sequences of planes and empresas may give in total
MaxUserId == 7     \* the last id the sequence of users may give
MaxDashboard == 3  \* rows the table may hold when the dashboard reads it
MaxGated == 1      \* tables written while all those routes are open
MaxBrowsers == 2   \* rendering-engine instances launched in a run
MaxServing == 1    \* requests between two awaits while a vendor's routes are open
MaxClock == 3      \* the time up to which tokens are followed
MaxTokens == 2     \* tokens handed out while they are followed

----------------------------------------------------------------------------
(* Values *)

\* Text is a sequence of one-character strings, so that concatenation,
\* trimming and substring search are computed, not assumed.
NULL == <<"null">>              \* SQL NULL / JSON null in a text position
Undefined == <<"undefined">>    \* JavaScript undefined
NoId == 0                       \* NULL in an integer column (ids and times start at 1)

Slots == 1 .. MaxReq

\* The identities a verified token can carry (req.user): userId and role.
Actors ==
    { [userId |-> 1, role |-> "VENDEDOR"],
      [userId |-> 2, role |-> "VENDEDOR"],
      [userId |-> 3, role |-> "SUPERVISOR"],
      [userId |-> 4, role |-> "GERENTE"],
      [userId |-> 5, role |-> "ADMINISTRADOR"] }

\* users.full_name of the users the tokens belong to.
UserFullName(uid) ==
    CASE uid = 1 -> <<"A", "n", "a">>
      [] uid = 2 -> <<"B", "o">>
      [] uid = 3 -> <<"S", "u">>
      [] uid = 4 -> <<"G", "e">>
      [] OTHER   -> <<"A", "d">>

UserIds == { a.userId : a \in Actors }

\* users.email of those users, stored in lower case.
UserEmail(uid) ==
    CASE uid = 1 -> <<"a", "n">>
      [] uid = 2 -> <<"b", "o">>
      [] uid = 3 -> <<"s", "u">>
      [] uid = 4 -> <<"g", "e">>
      [] OTHER   -> <<"a", "d">>

\* bcrypt.hash(password, salt): a value that bcrypt.compare matches with the
\* password it was made from and with no other.
PasswordHash(password) == <<"bcrypt", password>>

\* The password every seeded user was registered with.
SeedPassword == <<"p", "w">>

\* The users table when the server starts: the users the tokens belong to.
SeedUsers ==
    { [id |-> a.userId, full_name |-> UserFullName(a.userId),
       email |-> UserEmail(a.userId), password_hash |-> PasswordHash(SeedPassword),
       codigo |-> NULL, role |-> a.role] : a \in Actors }

\* JavaScript values that the handlers compare with === / !==, tagged by type.
JsNum(n) == <<"number", n>>
JsStr(s) == <<"string", s>>
JsUndefined == <<"undefined">>

\* a !== b
StrictNotEqual(a, b) == a # b

\* Property `name` of a JavaScript array: only the indices and length are own
\* properties, any other name reads as undefined.
ArrayProp(rows, name) ==
    IF name = "length" THEN JsNum(Len(rows)) ELSE JsUndefined

\* !v for a text value: undefined, null and "" are falsy.
Falsy(v) == v \in {Undefined, NULL, <<>>}

\* v || ""
OrEmpty(v) == IF Falsy(v) THEN <<>> ELSE v

\* obj.key for a JSON object held as a function from keys to values.
Prop(obj, key) == IF key \in DOMAIN obj THEN obj[key] ELSE Undefined

\* A value bound to a query parameter: undefined is sent as NULL.
SqlParam(v) == IF v = Undefined THEN NULL ELSE v

IsSpace(c) == c \in {" "}

RECURSIVE TrimLeft(_)
TrimLeft(s) ==
    IF s # <<>> /\ IsSpace(Head(s)) THEN TrimLeft(Tail(s)) ELSE s

RECURSIVE TrimRight(_)
TrimRight(s) ==
    IF s # <<>> /\ IsSpace(s[Len(s)]) THEN TrimRight(SubSeq(s, 1, Len(s) - 1)) ELSE s

\* String.prototype.trim
Trim(s) == TrimRight(TrimLeft(s))

----------------------------------------------------------------------------
(* Request inputs *)

\* JavaScript undefined where an object is expected (a body without formData);
\* reading a property of it throws a TypeError.
UndefinedObject == [undefined |-> <<>>]

\* Request bodies' formData documents (JSON objects).
FormDataA ==
    [apellidoTitular |-> <<"P", "a">>, nombreTitular |-> <<"L">>,
     dniTitular |-> <<"1">>, plan |-> <<"x">>, total |-> <<"1", "0">>,
     empresa |-> <<"e">>]

FormDataB ==
    [nombreTitular |-> <<"b", "o">>, dniTitular |-> <<"2">>, plan |-> <<"y">>]

\* Bodies of the create and update requests: { formData, latitud, longitud }.
DraftBodies ==
    { [formData |-> FormDataA, latitud |-> 7, longitud |-> 7],
      [formData |-> FormDataB, latitud |-> NoId, longitud |-> NoId],
      [formData |-> UndefinedObject, latitud |-> NoId, longitud |-> NoId] }

\* Bodies of the status-change requests: { newStatus, motivo }.
StatusBodies ==
    { [newStatus |-> "Aprobado", motivo |-> Undefined],
      [newStatus |-> "Aprobado", motivo |-> <<"d", "o", "c">>],
      [newStatus |-> "Rechazado", motivo |-> Undefined],
      [newStatus |-> "Rechazado", motivo |-> <<>>],
      [newStatus |-> "Rechazado", motivo |-> <<" ">>],
      [newStatus |-> "Rechazado", motivo |-> <<"d", "o", "c">>],
      [newStatus |-> "Abierta", motivo |-> Undefined] }

\* numeroSolicitud of the present requests.
NumerosSolicitud == {Undefined, <<>>, <<"1", "2", "3">>}

\* Ids a request may name: the rows that can exist and one that cannot.
RequestIds == 1 .. (MaxAff + 1)

----------------------------------------------------------------------------
(* The affiliations table *)

\* Column default of affiliations.status for rows inserted by POST
\* /api/affiliations: the INSERT names no status, the handler's comment gives it.
DraftInitialStatus == "Abierta"

\* Column default of affiliations.status for rows inserted by POST
\* /api/submit-ficha.  The INSERT names no status and the schema is not part of
\* the sources; the revisions differ between a draft and a presented record.
SubmitFichaInitialStatuses == {"Abierta", "Presentado"}

\* TitularNombre without the || "": a missing part prints as undefined.
TitularNombreNoDefault(formData) ==
    Prop(formData, "apellidoTitular") \o <<",", " ">>
        \o Prop(formData, "nombreTitular")

\* `${formData.apellidoTitular || ""}, ${formData.nombreTitular || ""}`
TitularNombre(formData) ==
    OrEmpty(Prop(formData, "apellidoTitular")) \o <<",", " ">>
        \o OrEmpty(Prop(formData, "nombreTitular"))

\* The row an INSERT INTO affiliations produces: the named columns from the
\* parameters, id from the sequence, fecha_creacion from NOW(), the rest NULL.
InsertedRow(id, userId, formData, titular, latitud, longitud, domLat, domLon, status, t) ==
    [id |-> id,
     user_id |-> userId,
     form_data |-> formData,
     titular_nombre |-> titular,
     titular_dni |-> SqlParam(Prop(formData, "dniTitular")),
     plan |-> SqlParam(Prop(formData, "plan")),
     latitud |-> latitud,
     longitud |-> longitud,
     domicilio_latitud |-> SqlParam(domLat),
     domicilio_longitud |-> SqlParam(domLon),
     status |-> status,
     fecha_creacion |-> t,
     fecha_presentacion |-> NoId,
     status_change_user_id |-> NoId,
     status_change_timestamp |-> NoId,
     rechazo_motivo |-> NULL]

\* SELECT ... FROM affiliations WHERE id = $1: result.rows
SelectById(table, id) ==
    IF id \in 1 .. Len(table) THEN <<table[id]>> ELSE <<>>

----------------------------------------------------------------------------
(* Requests and responses *)

NoActor == [userId |-> NoId, role |-> "none"]

\* A request: the verified token's identity, the route, params, query and body.
NoReq ==
    [op |-> "none", actor |-> NoActor, id |-> NoId,
     formData |-> UndefinedObject, latitud |-> NoId, longitud |-> NoId,
     numeroSolicitud |-> Undefined, newStatus |-> "none", motivo |-> Undefined,
     page |-> Undefined, rowsPerPage |-> Undefined, filter |-> Undefined,
     sortBy |-> "undefined", descending |-> "undefined",
     file |-> FALSE, descripcion |-> Undefined, body |-> UndefinedObject]

\* A response: HTTP status, message, and the fields of the JSON body.
\* code 0: the handler threw outside its try block and nothing was sent.
NoResp ==
    [req |-> NoReq, code |-> 0, message |-> "",
     newStatus |-> JsUndefined, timestamp |-> NoId, motivo |-> Undefined,
     rows |-> <<>>, totalRows |-> JsUndefined, details |-> UndefinedObject,
     token |-> UndefinedObject]

Respond(req, code, message) ==
    [NoResp EXCEPT !.req = req, !.code = code, !.message = message]

Idle == [phase |-> "idle", req |-> NoReq, formData |-> UndefinedObject]

Pending(req, formData) == [phase |-> "write", req |-> req, formData |-> formData]

\* A handler between its usage query and its DELETE.
Deleting(req) == [phase |-> "delete", req |-> req, formData |-> UndefinedObject]

\* The slot a new request takes: the first one that is idle.
FreeSlot(p) ==
    /\ inflight[p] = Idle
    /\ \A q \in 1 .. (p - 1) : inflight[q] # Idle

\* Authorize letting a GERENTE through every list.
AuthorizeGerente(allowedRoles, actor) ==
    actor.role \in allowedRoles \cup {"GERENTE"}

\* Authorize deciding by the role the users table holds for the caller.
AuthorizeStored(allowedRoles, actor) ==
    \E u \in users : u.id = actor.userId /\ u.role \in allowedRoles

\* authorize(allowedRoles): allowedRoles.includes(req.user.role)
Authorize(allowedRoles, actor) == actor.role \in allowedRoles

\* The answer of authorize to a role outside the list; the route handler, and
\* with it the params and the body, is never reached.
AccessDenied(op, actor) ==
    Respond([NoReq EXCEPT !.op = op, !.actor = actor], 403,
        "Acceso denegado: no tienes los permisos necesarios.")

AffiliationWriters == {"VENDEDOR", "SUPERVISOR", "ADMINISTRADOR"}

StatusChangers == {"SUPERVISOR", "ADMINISTRADOR"}

----------------------------------------------------------------------------
Init ==
    /\ affiliations = <<>>
    /\ now = 1
    /\ inflight = [p \in Slots |-> Idle]
    /\ last = NoResp
    /\ users = SeedUsers
    /\ planes = {}
    /\ empresas = {}
    /\ fotos = <<>>
    /\ serial = [users |-> Cardinality(SeedUsers), planes |-> 0, empresas |-> 0]
    /\ browsers = <<>>
    /\ tokens = {}

\* The response leaves the server; the next continuation of the event loop runs.
Deliver ==
    /\ last # NoResp
    /\ last' = NoResp
    /\ UNCHANGED otherTables
    /\ UNCHANGED <<affiliations, now, inflight>>

----------------------------------------------------------------------------
(* Creation *)

\* POST /api/submit-ficha, the table holding fewer than `limit` rows
SubmitFichaUpTo(limit) ==
    \E actor \in Actors :
        /\ last = NoResp
        /\ UNCHANGED otherTables
        /\ IF ~Authorize(AffiliationWriters, actor)
           THEN /\ last' = AccessDenied("submit-ficha", actor)
                /\ UNCHANGED <<affiliations, now, inflight>>
           ELSE \E body \in DraftBodies, status \in SubmitFichaInitialStatuses :
                LET formData == body.formData
                    req == [NoReq EXCEPT !.op = "submit-ficha", !.actor = actor,
                                !.formData = formData, !.latitud = body.latitud,
                                !.longitud = body.longitud]
                    id == Len(affiliations) + 1
                IN
                IF formData = UndefinedObject
                THEN \* destructuring formData throws before the try block
                     /\ last' = Respond(req, 0, "unanswered")
                     /\ UNCHANGED <<affiliations, now, inflight>>
                ELSE /\ Len(affiliations) < limit
                     /\ LET row == InsertedRow(id, actor.userId, formData,
                                       TitularNombre(formData),
                                       body.latitud, body.longitud,
                                       Prop(formData, "latitudDomicilio"),
                                       Prop(formData, "longitudDomicilio"),
                                       status, now)
                        IN /\ affiliations' = Append(affiliations, row)
                           /\ last' = [Respond(req, 201, "") EXCEPT !.rows = <<row>>]
                     /\ now' = now + 1
                     /\ UNCHANGED inflight

SubmitFicha == SubmitFichaUpTo(MaxAff)

\* POST /api/affiliations, the table holding fewer than `limit` rows
CreateAffiliationUpTo(limit) ==
    \E actor \in Actors :
        /\ last = NoResp
        /\ UNCHANGED otherTables
        /\ IF ~Authorize(AffiliationWriters, actor)
           THEN /\ last' = AccessDenied("create", actor)
                /\ UNCHANGED <<affiliations, now, inflight>>
           ELSE \E body \in DraftBodies :
                LET formData == body.formData
                    req == [NoReq EXCEPT !.op = "create", !.actor = actor,
                                !.formData = formData, !.latitud = body.latitud,
                                !.longitud = body.longitud]
                    id == Len(affiliations) + 1
                IN
                IF formData = UndefinedObject
                THEN \* formData.apellidoTitular throws before the try block
                     /\ last' = Respond(req, 0, "unanswered")
                     /\ UNCHANGED <<affiliations, now, inflight>>
                ELSE /\ Len(affiliations) < limit
                     /\ affiliations' = Append(affiliations,
                            InsertedRow(id, actor.userId, formData,
                                TitularNombre(formData), body.latitud, body.longitud,
                                Undefined, Undefined, DraftInitialStatus, now))
                     /\ now' = now + 1
                     \* newId: result.rows.id is undefined and dropped from the JSON
                     /\ last' = Respond(req, 201, "Borrador guardado correctamente.")
                     /\ UNCHANGED inflight

CreateAffiliation == CreateAffiliationUpTo(MaxAff)

----------------------------------------------------------------------------
(* Status change: PUT /api/affiliations/:id/status *)

\* StatusBodyError without the trim: a motivo of blanks passes.
StatusBodyErrorNoTrim(newStatus, motivo) ==
    IF newStatus \notin {"Aprobado", "Rechazado"}
    THEN "Estado no valido."
    ELSE IF newStatus = "Rechazado" /\ Falsy(motivo)
    THEN "El motivo del rechazo es obligatorio."
    ELSE ""

\* The checks on the body made before the try block; "" when it passes.
StatusBodyError(newStatus, motivo) ==
    IF newStatus \notin {"Aprobado", "Rechazado"}
    THEN "Estado no valido."
    ELSE IF newStatus = "Rechazado" /\ (Falsy(motivo) \/ Trim(motivo) = <<>>)
    THEN "El motivo del rechazo es obligatorio."
    ELSE ""

StatusConflictMessage(status) ==
    "Esta afiliacion ya esta en estado '" \o status \o "' y no se puede cambiar."

\* ChangeStatusCheck without the comparison with 'Presentado'.
ChangeStatusCheckNoState(rows) ==
    IF Len(rows) = 0 THEN 404 ELSE 0

\* src/index.js: the checks on the row read by SELECT status; 0 to go on.
ChangeStatusCheck(rows) ==
    IF Len(rows) = 0 THEN 404
    ELSE IF StrictNotEqual(JsStr(rows[1].status), JsStr("Presentado")) THEN 409
    ELSE 0

\* part_004: the same checks, reading current.rows.status.
ChangeStatusDraftCheck(rows) ==
    IF Len(rows) = 0 THEN 404
    ELSE IF StrictNotEqual(ArrayProp(rows, "status"), JsStr("Presentado")) THEN 409
    ELSE 0

\* RechazoMotivoParam passing the motivo whatever the new status.
RechazoMotivoParamAlways(newStatus, motivo) == motivo

\* The third parameter of the UPDATE: newStatus === "Rechazado" ? motivo : null
RechazoMotivoParam(newStatus, motivo) ==
    IF newStatus = "Rechazado" THEN motivo ELSE NULL

\* UpdateStatus leaving status_change_user_id as it was.
UpdateStatusKeepUser(table, id, newStatus, userId, motivo, t) ==
    IF id \in 1 .. Len(table)
    THEN [table EXCEPT ![id] =
            [@ EXCEPT !.status = newStatus,
                      !.status_change_timestamp = t,
                      !.rechazo_motivo = SqlParam(motivo)]]
    ELSE table

\* UPDATE affiliations SET status = $1, status_change_user_id = $2,
\*   status_change_timestamp = NOW(), rechazo_motivo = $3 WHERE id = $4
UpdateStatus(table, id, newStatus, userId, motivo, t) ==
    IF id \in 1 .. Len(table)
    THEN [table EXCEPT ![id] =
            [@ EXCEPT !.status = newStatus,
                      !.status_change_user_id = userId,
                      !.status_change_timestamp = t,
                      !.rechazo_motivo = SqlParam(motivo)]]
    ELSE table

\* PUT /api/affiliations/:id/status of src/index.js, up to the UPDATE being issued
ChangeStatus ==
    \E p \in Slots, actor \in Actors :
        /\ last = NoResp
        /\ UNCHANGED otherTables
        /\ FreeSlot(p)
        /\ UNCHANGED <<affiliations, now>>
        /\ IF ~Authorize(StatusChangers, actor)
           THEN last' = AccessDenied("status", actor) /\ UNCHANGED inflight
           ELSE \E id \in RequestIds, body \in StatusBodies :
                LET newStatus == body.newStatus
                    motivo == body.motivo
                    req == [NoReq EXCEPT !.op = "status", !.actor = actor, !.id = id,
                                !.newStatus = newStatus, !.motivo = motivo]
                    rows == SelectById(affiliations, id)
                    code == ChangeStatusCheck(rows)
                IN
                IF StatusBodyError(newStatus, motivo) # ""
                THEN /\ last' = Respond(req, 400, StatusBodyError(newStatus, motivo))
                     /\ UNCHANGED inflight
                ELSE IF code = 404
                THEN /\ last' = Respond(req, 404, "Afiliacion no encontrada.")
                     /\ UNCHANGED inflight
                ELSE IF code = 409
                THEN /\ last' = Respond(req, 409, StatusConflictMessage(rows[1].status))
                     /\ UNCHANGED inflight
                ELSE /\ inflight' = [inflight EXCEPT ![p] = Pending(req, UndefinedObject)]
                     /\ UNCHANGED last

\* PUT /api/affiliations/:id/status of part_004, up to the UPDATE being issued
ChangeStatusDraft ==
    \E p \in Slots, actor \in Actors :
        /\ last = NoResp
        /\ UNCHANGED otherTables
        /\ FreeSlot(p)
        /\ UNCHANGED <<affiliations, now>>
        /\ IF ~Authorize(StatusChangers, actor)
           THEN last' = AccessDenied("statusDraft", actor) /\ UNCHANGED inflight
           ELSE \E id \in RequestIds, body \in StatusBodies :
                LET newStatus == body.newStatus
                    motivo == body.motivo
                    req == [NoReq EXCEPT !.op = "statusDraft", !.actor = actor,
                                !.id = id, !.newStatus = newStatus, !.motivo = motivo]
                    rows == SelectById(affiliations, id)
                    code == ChangeStatusDraftCheck(rows)
                IN
                IF StatusBodyError(newStatus, motivo) # ""
                THEN /\ last' = Respond(req, 400, StatusBodyError(newStatus, motivo))
                     /\ UNCHANGED inflight
                ELSE IF code = 404
                THEN /\ last' = Respond(req, 404, "Afiliacion no encontrada.")
                     /\ UNCHANGED inflight
                ELSE IF code = 409
                THEN /\ last' = Respond(req, 409, StatusConflictMessage(rows[1].status))
                     /\ UNCHANGED inflight
                ELSE /\ inflight' = [inflight EXCEPT ![p] = Pending(req, UndefinedObject)]
                     /\ UNCHANGED last

----------------------------------------------------------------------------
(* Draft editing: PUT /api/affiliations/:id and PUT /api/affiliations/:id/present *)

\* The checks of the update handler on checkQuery; 0 to go on to the UPDATE.
\* The handler reads user_id and status from checkQuery.rows, the array.
UpdateCheck(actor, rows) ==
    IF Len(rows) = 0 THEN 404
    ELSE IF actor.role = "VENDEDOR"
            /\ StrictNotEqual(ArrayProp(rows, "user_id"), JsNum(actor.userId))
    THEN 403
    ELSE IF StrictNotEqual(ArrayProp(rows, "status"), JsStr("Abierta")) THEN 409
    ELSE 0

\* PresentCheck without the ownership test.
PresentCheckNoOwner(actor, rows) ==
    IF Len(rows) = 0 THEN 404
    ELSE IF StrictNotEqual(ArrayProp(rows, "status"), JsStr("Abierta")) THEN 409
    ELSE 0

\* The checks of the present handler on checkQuery; 0 to go on to the UPDATE.
PresentCheck(actor, rows) ==
    IF Len(rows) = 0 THEN 404
    ELSE IF actor.role = "VENDEDOR"
            /\ StrictNotEqual(ArrayProp(rows, "user_id"), JsNum(actor.userId))
    THEN 403
    ELSE IF StrictNotEqual(ArrayProp(rows, "status"), JsStr("Abierta")) THEN 409
    ELSE 0

EmptyObject == [k \in {} |-> <<>>]

\* obj.key = v
SetProp(obj, key, v) == (key :> v) @@ obj

\* let currentFormData = checkQuery.rows.form_data || {};
\* currentFormData.solicitud = numeroSolicitud;
PresentFormData(rows, numeroSolicitud) ==
    LET read == ArrayProp(rows, "form_data")
        currentFormData == IF read = JsUndefined THEN EmptyObject ELSE rows[1].form_data
    IN SetProp(currentFormData, "solicitud", numeroSolicitud)

\* UPDATE affiliations SET form_data = $1, titular_nombre = $2, titular_dni = $3,
\*   plan = $4, latitud = $5, longitud = $6 WHERE id = $7
UpdateDraft(table, id, formData, latitud, longitud) ==
    IF id \in 1 .. Len(table)
    THEN [table EXCEPT ![id] =
            [@ EXCEPT !.form_data = formData,
                      !.titular_nombre = TitularNombre(formData),
                      !.titular_dni = SqlParam(Prop(formData, "dniTitular")),
                      !.plan = SqlParam(Prop(formData, "plan")),
                      !.latitud = latitud,
                      !.longitud = longitud]]
    ELSE table

\* UPDATE affiliations SET status = 'Presentado', fecha_presentacion = NOW(),
\*   form_data = $1 WHERE id = $2
UpdatePresent(table, id, formData, t) ==
    IF id \in 1 .. Len(table)
    THEN [table EXCEPT ![id] =
            [@ EXCEPT !.status = "Presentado",
                      !.fecha_presentacion = t,
                      !.form_data = formData]]
    ELSE table

\* PUT /api/affiliations/:id, up to the UPDATE being issued
UpdateAffiliation ==
    \E p \in Slots, actor \in Actors :
        /\ last = NoResp
        /\ UNCHANGED otherTables
        /\ FreeSlot(p)
        /\ UNCHANGED <<affiliations, now>>
        /\ IF ~Authorize(AffiliationWriters, actor)
           THEN last' = AccessDenied("update", actor) /\ UNCHANGED inflight
           ELSE \E id \in RequestIds, body \in DraftBodies :
                LET formData == body.formData
                    req == [NoReq EXCEPT !.op = "update", !.actor = actor, !.id = id,
                                !.formData = formData, !.latitud = body.latitud,
                                !.longitud = body.longitud]
                    rows == SelectById(affiliations, id)
                    code == UpdateCheck(actor, rows)
                IN
                IF code = 404
                THEN /\ last' = Respond(req, 404, "Ficha no encontrada.")
                     /\ UNCHANGED inflight
                ELSE IF code = 403
                THEN /\ last' = Respond(req, 403,
                             "No tienes permiso para editar esta ficha.")
                     /\ UNCHANGED inflight
                ELSE IF code = 409
                THEN /\ last' = Respond(req, 409,
                             "No se puede editar una ficha en estado '"
                                 \o rows[1].status \o "'.")
                     /\ UNCHANGED inflight
                ELSE IF formData = UndefinedObject
                THEN \* formData.apellidoTitular throws inside the try block
                     /\ last' = Respond(req, 500, "Error al actualizar el borrador.")
                     /\ UNCHANGED inflight
                ELSE /\ inflight' = [inflight EXCEPT ![p] = Pending(req, formData)]
                     /\ UNCHANGED last

\* PUT /api/affiliations/:id/present, up to the UPDATE being issued
PresentAffiliation ==
    \E p \in Slots, actor \in Actors :
        /\ last = NoResp
        /\ UNCHANGED otherTables
        /\ FreeSlot(p)
        /\ UNCHANGED <<affiliations, now>>
        /\ IF ~Authorize(AffiliationWriters, actor)
           THEN last' = AccessDenied("present", actor) /\ UNCHANGED inflight
           ELSE \E id \in RequestIds, numeroSolicitud \in NumerosSolicitud :
                LET req == [NoReq EXCEPT !.op = "present", !.actor = actor, !.id = id,
                                !.numeroSolicitud = numeroSolicitud]
                    rows == SelectById(affiliations, id)
                    code == PresentCheck(actor, rows)
                IN
                IF Falsy(numeroSolicitud)
                THEN /\ last' = Respond(req, 400, "El numero de solicitud es requerido.")
                     /\ UNCHANGED inflight
                ELSE IF code = 404
                THEN /\ last' = Respond(req, 404, "Ficha no encontrada.")
                     /\ UNCHANGED inflight
                ELSE IF code = 403
                THEN /\ last' = Respond(req, 403,
                             "No tienes permiso para presentar esta ficha.")
                     /\ UNCHANGED inflight
                ELSE IF code = 409
                THEN /\ last' = Respond(req, 409,
                             "Esta ficha ya fue presentada o procesada.")
                     /\ UNCHANGED inflight
                ELSE /\ inflight' = [inflight EXCEPT ![p] =
                                         Pending(req, PresentFormData(rows, numeroSolicitud))]
                     /\ UNCHANGED last

----------------------------------------------------------------------------
(* The pending UPDATE of a slot runs and the handler answers *)

ExecWrite ==
    \E p \in Slots :
        LET req == inflight[p].req
            id == req.id
        IN
        /\ last = NoResp
        /\ UNCHANGED otherTables
        /\ inflight[p].phase = "write"
        /\ inflight' = [inflight EXCEPT ![p] = Idle]
        /\ IF req.op \in {"status", "statusDraft"}
           THEN LET table == UpdateStatus(affiliations, id, req.newStatus,
                                 req.actor.userId,
                                 RechazoMotivoParam(req.newStatus, req.motivo), now)
                    returned == table[id]
                IN /\ affiliations' = table
                   /\ now' = now + 1
                   /\ last' =
                        IF req.op = "status"
                        THEN \* result.rows[0].status, ...
                             [Respond(req, 200, "") EXCEPT
                                !.newStatus = JsStr(returned.status),
                                !.timestamp = returned.status_change_timestamp,
                                !.motivo = returned.rechazo_motivo]
                        ELSE \* result.rows.status, ...: undefined
                             Respond(req, 200, "")
           ELSE IF req.op = "update"
           THEN /\ affiliations' = UpdateDraft(affiliations, id, inflight[p].formData,
                                       req.latitud, req.longitud)
                /\ UNCHANGED now
                /\ last' = Respond(req, 200, "Borrador actualizado correctamente.")
           ELSE /\ affiliations' = UpdatePresent(affiliations, id,
                                       inflight[p].formData, now)
                /\ now' = now + 1
                /\ last' = Respond(req, 200, "Ficha presentada con exito.")

----------------------------------------------------------------------------
(* Listing: GET /api/affiliations *)

\* The characters of the texts, in code-point order.
Alphabet ==
    <<" ", ",", "0", "1", "2", "3", "4", "5", "6", "7", "8", "9",
      "A", "B", "C", "D", "E", "F", "G", "H", "I", "J", "K", "L", "M",
      "N", "O", "P", "Q", "R", "S", "T", "U", "V", "W", "X", "Y", "Z",
      "a", "b", "c", "d", "e", "f", "g", "h", "i", "j", "k", "l", "m",
      "n", "o", "p", "q", "r", "s", "t", "u", "v", "w", "x", "y", "z">>

CharRank(c) == CHOOSE i \in 1 .. Len(Alphabet) : Alphabet[i] = c

Lower(c) ==
    IF CharRank(c) \in CharRank("A") .. CharRank("Z")
    THEN Alphabet[CharRank(c) + (CharRank("a") - CharRank("A"))]
    ELSE c

LowerText(s) == [i \in 1 .. Len(s) |-> Lower(s[i])]

Contains(s, sub) ==
    \E i \in 0 .. (Len(s) - Len(sub)) : SubSeq(s, i + 1, i + Len(sub)) = sub

\* column ILIKE '%' || filter || '%', the filter holding no % or _ ; NULL
\* ILIKE anything is NULL, which WHERE takes as false.
ILike(value, filter) ==
    value # NULL /\ Contains(LowerText(value), LowerText(filter))

\* a < b for two texts, character by character.
RECURSIVE TextLess(_, _)
TextLess(a, b) ==
    IF b = <<>> THEN FALSE
    ELSE IF a = <<>> THEN TRUE
    ELSE IF Head(a) = Head(b) THEN TextLess(Tail(a), Tail(b))
    ELSE CharRank(Head(a)) < CharRank(Head(b))

IsNumeral(s) ==
    \A i \in 1 .. Len(s) : CharRank(s[i]) \in CharRank("0") .. CharRank("9")

\* The number a text of digits denotes; Number("") is 0.
RECURSIVE ParseNumeral(_)
ParseNumeral(s) ==
    IF s = <<>> THEN 0
    ELSE ParseNumeral(SubSeq(s, 1, Len(s) - 1)) * 10
            + (CharRank(s[Len(s)]) - CharRank("0"))

\* The query strings of the list requests, "undefined" / Undefined for an
\* absent parameter: the defaults, a filter, a second page of one row, no
\* limit, page 0, and the sort keys.
ListQueries ==
    { [page |-> Undefined, rowsPerPage |-> Undefined, filter |-> Undefined,
       sortBy |-> "undefined", descending |-> "undefined"],
      [page |-> Undefined, rowsPerPage |-> Undefined, filter |-> <<"b", "o">>,
       sortBy |-> "undefined", descending |-> "undefined"],
      [page |-> <<"2">>, rowsPerPage |-> <<"1">>, filter |-> Undefined,
       sortBy |-> "plan", descending |-> "true"],
      [page |-> <<"2">>, rowsPerPage |-> <<"1">>, filter |-> <<"b", "o">>,
       sortBy |-> "fecha_creacion", descending |-> "false"],
      [page |-> Undefined, rowsPerPage |-> <<"0">>, filter |-> <<"b", "o">>,
       sortBy |-> "total", descending |-> "undefined"],
      [page |-> <<"1">>, rowsPerPage |-> <<"0">>, filter |-> Undefined,
       sortBy |-> "vendor_name", descending |-> "true"],
      [page |-> <<"0">>, rowsPerPage |-> <<"1">>, filter |-> Undefined,
       sortBy |-> "undefined", descending |-> "undefined"],
      [page |-> Undefined, rowsPerPage |-> Undefined, filter |-> Undefined,
       sortBy |-> "constructor", descending |-> "undefined"] }

DefaultPage == 1

DefaultRowsPerPage == 20

\* The columns of the SELECT list of src/index.js and of part_004.
ListedRow(row) ==
    [id |-> row.id,
     titular_nombre |-> row.titular_nombre,
     titular_dni |-> row.titular_dni,
     plan |-> row.plan,
     status |-> row.status,
     fecha_creacion |-> row.fecha_creacion,
     total |-> SqlParam(Prop(row.form_data, "total")),
     vendor_name |-> UserFullName(row.user_id)]

\* ListWhere without the clause on a.user_id.
ListWhereAnyOwner(actor, filter, row) ==
    Falsy(filter)
        \/ ILike(row.titular_nombre, filter)
        \/ ILike(row.titular_dni, filter)
        \/ ILike(row.plan, filter)
        \/ ILike(UserFullName(row.user_id), filter)

\* whereCondition of src/index.js: the clauses joined by AND, the filter's
\* disjunction in parentheses.
ListWhere(actor, filter, row) ==
    /\ actor.role = "VENDEDOR" => row.user_id = actor.userId
    /\ Falsy(filter)
        \/ ILike(row.titular_nombre, filter)
        \/ ILike(row.titular_dni, filter)
        \/ ILike(row.plan, filter)
        \/ ILike(UserFullName(row.user_id), filter)

\* The ids of the rows of the join that pass whereCondition.
Matching(table, actor, filter) ==
    { id \in 1 .. Len(table) : ListWhere(actor, filter, table[id]) }

\* The keys of orderByMap.
OrderByMap ==
    {"titular_nombre", "plan", "total", "status", "vendor_name", "fecha_creacion"}

\* Names that orderByMap[sortBy] finds on Object.prototype: the value is a
\* function, truthy, and its source text is what reaches the query.
ObjectPrototypeKeys == {"constructor", "toString", "valueOf", "hasOwnProperty"}

\* orderByMap[sortBy] || "a.fecha_creacion", by the key of the expression used
OrderByColumn(sortBy) ==
    IF sortBy \in OrderByMap THEN sortBy
    ELSE IF sortBy \in ObjectPrototypeKeys THEN "native code"
    ELSE "fecha_creacion"

StatusOrder == <<"Abierta", "Aprobado", "Presentado", "Rechazado">>

StatusRank(s) == CHOOSE i \in 1 .. Len(StatusOrder) : StatusOrder[i] = s

\* a sorts before b under ORDER BY column ASC; NULL sorts after every value.
OrderLess(column, a, b) ==
    CASE column = "total" ->
            a.total # NULL
                /\ (b.total = NULL \/ ParseNumeral(a.total) < ParseNumeral(b.total))
      [] column = "fecha_creacion" -> a.fecha_creacion < b.fecha_creacion
      [] column = "status" -> StatusRank(a.status) < StatusRank(b.status)
      [] OTHER ->
            a[column] # NULL /\ (b[column] = NULL \/ TextLess(a[column], b[column]))

\* a must come before b under ORDER BY column ASC / DESC
OrderBefore(column, descending, a, b) ==
    IF descending THEN OrderLess(column, b, a) ELSE OrderLess(column, a, b)

\* The orders in which ORDER BY may return the rows `ids`: rows that compare
\* equal come in any order.
Orderings(table, ids, column, descending) ==
    { s \in [1 .. Cardinality(ids) -> ids] :
        /\ \A i, j \in DOMAIN s : i # j => s[i] # s[j]
        /\ \A i, j \in DOMAIN s :
              i < j => ~OrderBefore(column, descending,
                           ListedRow(table[s[j]]), ListedRow(table[s[i]])) }

\* const offset = (page - 1) * rowsPerPage, page and rowsPerPage defaulting
\* to 1 and 20 when absent
Offset(page, rowsPerPage) ==
    ((IF page = Undefined THEN DefaultPage ELSE ParseNumeral(page)) - 1)
        * (IF rowsPerPage = Undefined THEN DefaultRowsPerPage
           ELSE ParseNumeral(rowsPerPage))

\* const limit = rowsPerPage === "0" ? null : rowsPerPage; NoId for null
Limit(rowsPerPage) ==
    IF rowsPerPage = <<"0">> THEN NoId
    ELSE IF rowsPerPage = Undefined THEN DefaultRowsPerPage
    ELSE ParseNumeral(rowsPerPage)

\* LIMIT limit OFFSET offset applied to the ordered rows; no LIMIT when
\* rowsPerPage is "0".
LimitOffset(s, rowsPerPage, offset) ==
    IF rowsPerPage = <<"0">> THEN SubSeq(s, offset + 1, Len(s))
    ELSE IF offset + Limit(rowsPerPage) < Len(s)
    THEN SubSeq(s, offset + 1, offset + Limit(rowsPerPage))
    ELSE SubSeq(s, offset + 1, Len(s))

\* The second query is rejected by the database: a page or rowsPerPage that is
\* not a number, a negative OFFSET, an ORDER BY that is no expression, or a
\* total that does not cast to NUMERIC.
SelectFails(table, ids, req) ==
    \/ req.page # Undefined /\ ~IsNumeral(req.page)
    \/ req.rowsPerPage # Undefined /\ ~IsNumeral(req.rowsPerPage)
    \/ Offset(req.page, req.rowsPerPage) < 0
    \/ OrderByColumn(req.sortBy) = "native code"
    \/ /\ OrderByColumn(req.sortBy) = "total"
       /\ \E id \in ids :
            ListedRow(table[id]).total # NULL /\ ~IsNumeral(ListedRow(table[id]).total)

Listing(req, totalRows) ==
    [phase |-> "select", req |-> req, formData |-> UndefinedObject,
     totalRows |-> totalRows]

\* GET /api/affiliations of src/index.js, up to the answer of SELECT COUNT(*)
ListCount ==
    \E p \in Slots, actor \in Actors, query \in ListQueries :
        LET req == [NoReq EXCEPT !.op = "list", !.actor = actor,
                        !.page = query.page, !.rowsPerPage = query.rowsPerPage,
                        !.filter = query.filter, !.sortBy = query.sortBy,
                        !.descending = query.descending]
        IN
        /\ last = NoResp
        /\ UNCHANGED otherTables
        /\ FreeSlot(p)
        /\ Cardinality({q \in Slots : inflight[q] # Idle}) < MaxListing
        /\ inflight' = [inflight EXCEPT ![p] =
                Listing(req, Cardinality(Matching(affiliations, actor, query.filter)))]
        /\ UNCHANGED <<affiliations, now, last>>

\* The rest of the handler: the SELECT runs and the answer is sent
ListSelect ==
    \E p \in Slots :
        LET req == inflight[p].req
            ids == Matching(affiliations, req.actor, req.filter)
        IN
        /\ last = NoResp
        /\ UNCHANGED otherTables
        /\ inflight[p].phase = "select"
        /\ inflight' = [inflight EXCEPT ![p] = Idle]
        /\ UNCHANGED <<affiliations, now>>
        /\ IF SelectFails(affiliations, ids, req)
           THEN last' = Respond(req, 500, "Error al obtener afiliaciones.")
           ELSE \E s \in Orderings(affiliations, ids, OrderByColumn(req.sortBy),
                             req.descending = "true") :
                last' = [Respond(req, 200, "") EXCEPT
                            !.rows = LimitOffset(
                                [i \in DOMAIN s |-> ListedRow(affiliations[s[i]])],
                                req.rowsPerPage,
                                Offset(req.page, req.rowsPerPage)),
                            !.totalRows = JsNum(inflight[p].totalRows)]

\* GET /api/affiliations of part_004: one query, the rows are the answer
ListDraft ==
    \E actor \in Actors :
        LET req == [NoReq EXCEPT !.op = "listDraft", !.actor = actor]
            ids == { id \in 1 .. Len(affiliations) :
                        actor.role = "VENDEDOR"
                            => affiliations[id].user_id = actor.userId }
        IN
        /\ last = NoResp
        /\ UNCHANGED otherTables
        /\ \E s \in Orderings(affiliations, ids, "fecha_creacion", TRUE) :
              last' = [Respond(req, 200, "") EXCEPT
                          !.rows = [i \in DOMAIN s |-> ListedRow(affiliations[s[i]])]]
        /\ UNCHANGED <<affiliations, now, inflight>>

SubmitFichaListed == SubmitFichaUpTo(MaxListed)

CreateAffiliationListed == CreateAffiliationUpTo(MaxListed)

----------------------------------------------------------------------------
(* Photos and detail: POST /api/affiliations/:id/fotos, GET /api/affiliations/:id *)

\* Whether afiliacion_fotos.afiliacion_id is declared a foreign key; the
\* schema is not part of the sources.
FotoForeignKeys == {TRUE, FALSE}

\* The row INSERT INTO afiliacion_fotos ... RETURNING * produces; public_id is
\* the one the upload gave, `afiliaciones/${id}/${Date.now()}`.
InsertedFoto(fotoId, id, descripcion, t) ==
    [id |-> fotoId, afiliacion_id |-> id, public_id |-> <<id, t>>,
     descripcion |-> SqlParam(descripcion), fecha_subida |-> t]

\* POST /api/affiliations/:id/fotos
UploadFoto ==
    \E actor \in Actors :
        /\ last = NoResp
        /\ UNCHANGED <<affiliations, inflight, users, planes, empresas, serial, browsers, tokens>>
        /\ IF ~Authorize(AffiliationWriters, actor)
           THEN last' = AccessDenied("fotos", actor) /\ UNCHANGED <<fotos, now>>
           ELSE \E id \in RequestIds, file \in BOOLEAN, uploaded \in BOOLEAN,
                   foreignKey \in FotoForeignKeys :
                LET req == [NoReq EXCEPT !.op = "fotos", !.actor = actor, !.id = id,
                                !.file = file]
                IN
                IF ~file
                THEN /\ last' = Respond(req, 400, "No se ha subido ningun archivo.")
                     /\ UNCHANGED <<fotos, now>>
                ELSE IF ~uploaded \/ (foreignKey /\ SelectById(affiliations, id) = <<>>)
                THEN \* the upload stream or the INSERT rejects
                     /\ last' = Respond(req, 500,
                                    "Error interno del servidor al procesar la foto.")
                     /\ UNCHANGED <<fotos, now>>
                ELSE /\ Len(fotos) < MaxFotos
                     /\ fotos' = Append(fotos,
                            InsertedFoto(Len(fotos) + 1, id, req.descripcion, now))
                     /\ now' = now + 1
                     /\ last' = [Respond(req, 201, "") EXCEPT
                                    !.rows = <<InsertedFoto(Len(fotos) + 1, id,
                                                   req.descripcion, now)>>]

\* users rows with the given id, as a JOIN on users.id finds them.
UsersById(table, uid) == { u \in table : u.id = uid }

\* The detail query: a.* with the creator joined and the status changer left
\* joined, WHERE a.id = $1, for a VENDEDOR AND a.user_id = $2.
SelectDetail(actor, id) ==
    IF /\ id \in 1 .. Len(affiliations)
       /\ UsersById(users, affiliations[id].user_id) # {}
       /\ actor.role = "VENDEDOR" => affiliations[id].user_id = actor.userId
    THEN <<affiliations[id]>>
    ELSE <<>>

\* creator.full_name / status_changer.full_name of the joined row; NULL when
\* the LEFT JOIN finds no user.
JoinedFullName(uid) ==
    IF UsersById(users, uid) = {} THEN NULL
    ELSE (CHOOSE u \in UsersById(users, uid) : TRUE).full_name

JoinedCodigo(uid) ==
    IF UsersById(users, uid) = {} THEN NULL
    ELSE (CHOOSE u \in UsersById(users, uid) : TRUE).codigo

\* SELECT ... FROM afiliacion_fotos WHERE afiliacion_id = $1 ORDER BY
\* fecha_subida DESC, each row with its signed url
FotosOf(id) ==
    LET ids == { i \in 1 .. Len(fotos) : fotos[i].afiliacion_id = id }
        Newest(S) == CHOOSE i \in S : \A j \in S : fotos[j].fecha_subida <= fotos[i].fecha_subida
        Sorted[S \in SUBSET ids] ==
            IF S = {} THEN <<>>
            ELSE <<[foto |-> fotos[Newest(S)], url_segura |-> <<"signed", fotos[Newest(S)].public_id>>]>>
                    \o Sorted[S \ {Newest(S)}]
    IN Sorted[ids]

\* affiliationDetails of src/index.js: the keys of form_data, overridden by
\* the columns of the row.
AffiliationDetails(dbRow, fotosConUrlSegura) ==
    [id |-> dbRow.id,
     solicitud |-> Prop(dbRow.form_data, "solicitud"),
     latitud |-> dbRow.latitud,
     longitud |-> dbRow.longitud,
     status |-> dbRow.status,
     statusChangeTimestamp |-> dbRow.status_change_timestamp,
     statusChangeUserName |-> JoinedFullName(dbRow.status_change_user_id),
     rechazoMotivo |-> dbRow.rechazo_motivo,
     creatorUserName |-> JoinedFullName(dbRow.user_id),
     creatorUserCodigo |-> JoinedCodigo(dbRow.user_id),
     domicilio_latitud |-> dbRow.domicilio_latitud,
     domicilio_longitud |-> dbRow.domicilio_longitud,
     fotos |-> fotosConUrlSegura] @@ dbRow.form_data

\* affiliationDetails of part_004 as res.json sends it: dbRow is result.rows,
\* the array, so every property read is undefined and JSON leaves it out.
AffiliationDetailsDraft(rows) ==
    IF ArrayProp(rows, "form_data") = JsUndefined /\ ArrayProp(rows, "id") = JsUndefined
    THEN EmptyObject
    ELSE [id |-> rows[1].id, status |-> rows[1].status] @@ rows[1].form_data

Detailing(req, dbRow) ==
    [phase |-> "fotos", req |-> req, formData |-> UndefinedObject, dbRow |-> dbRow]

\* GET /api/affiliations/:id of src/index.js, up to the query on afiliacion_fotos
GetDetail ==
    \E p \in Slots, actor \in Actors, id \in RequestIds :
        LET req == [NoReq EXCEPT !.op = "detail", !.actor = actor, !.id = id]
            rows == SelectDetail(actor, id)
        IN
        /\ last = NoResp
        /\ FreeSlot(p)
        /\ UNCHANGED <<affiliations, now, otherTables>>
        /\ IF Len(rows) = 0
           THEN /\ last' = Respond(req, 404, "Afiliacion no encontrada o sin permiso.")
                /\ UNCHANGED inflight
           ELSE /\ inflight' = [inflight EXCEPT ![p] = Detailing(req, rows[1])]
                /\ UNCHANGED last

\* The rest of the handler: the photos are read and the details are sent
GetDetailFotos ==
    \E p \in Slots :
        /\ last = NoResp
        /\ inflight[p].phase = "fotos"
        /\ inflight' = [inflight EXCEPT ![p] = Idle]
        /\ UNCHANGED <<affiliations, now, otherTables>>
        /\ last' = [Respond(inflight[p].req, 200, "") EXCEPT
                       !.details = AffiliationDetails(inflight[p].dbRow,
                                       FotosOf(inflight[p].req.id))]

\* GET /api/affiliations/:id of part_004
GetDetailDraft ==
    \E actor \in Actors, id \in RequestIds :
        LET req == [NoReq EXCEPT !.op = "detailDraft", !.actor = actor, !.id = id]
            rows == SelectDetail(actor, id)
        IN
        /\ last = NoResp
        /\ UNCHANGED <<affiliations, now, inflight, otherTables>>
        /\ last' = IF Len(rows) = 0
                   THEN Respond(req, 404, "Afiliacion no encontrada o sin permiso.")
                   ELSE [Respond(req, 200, "") EXCEPT
                            !.details = AffiliationDetailsDraft(rows)]

----------------------------------------------------------------------------
(* Reference data: /api/planes and /api/empresas *)

Administrators == {"ADMINISTRADOR"}

\* Bodies of the plan requests: the seven fields the handlers destructure.
PlanX ==
    [label |-> <<"X">>, value |-> <<"x">>, tipo |-> <<"t">>,
     importe_grupo_familiar |-> <<"3">>, importe_individual |-> <<"1">>,
     importe_adherente |-> <<"2">>, titulo |-> <<"T">>]

PlanY == [PlanX EXCEPT !.label = <<"Y">>, !.value = <<"y">>]

PlanNoTitulo == [PlanX EXCEPT !.titulo = Undefined]

PlanBodies == {PlanX, PlanY, PlanNoTitulo}

\* Bodies of the company requests: { label, value }.
EmpresaBodies ==
    { [label |-> <<"E">>, value |-> <<"e">>],
      [label |-> <<"F">>, value |-> <<"f">>],
      [label |-> <<"E">>, value |-> Undefined] }

\* Ids a request on a reference table may name.
ReferenceIds == 1 .. MaxRefId

\* !a || !b || ... over the fields of a body
MissingField(body) == \E f \in DOMAIN body : Falsy(body[f])

\* The row INSERT ... RETURNING * gives: the columns of the body and the id.
ReferenceRow(id, body) == [id |-> id] @@ body

\* Rows of a reference table with the given id.
RowsById(table, id) == { r \in table : r.id = id }

\* The unique index on value: another row of the table holds the value (23505).
ValueTaken(table, id, value) == \E r \in table : r.id # id /\ r.value = value

\* The foreign key of affiliations.plan: a row references the plan (23503).
PlanInUse(value) ==
    \E i \in 1 .. Len(affiliations) : affiliations[i].plan = value

\* SELECT 1 FROM affiliations WHERE form_data ->> 'empresa' =
\* (SELECT value FROM empresas WHERE id = $1) LIMIT 1: usage.rows.length > 0
EmpresaUsage(id) ==
    \E r \in RowsById(empresas, id), i \in 1 .. Len(affiliations) :
        Prop(affiliations[i].form_data, "empresa") = r.value

\* The reference rows inserted so far, the rejected inserts included.
ReferenceInserts == serial.planes + serial.empresas

\* POST /api/planes
CreatePlan ==
    \E actor \in Actors :
        /\ last = NoResp
        /\ UNCHANGED <<affiliations, now, inflight, users, empresas, fotos, browsers, tokens>>
        /\ IF ~Authorize(Administrators, actor)
           THEN last' = AccessDenied("createPlan", actor) /\ UNCHANGED <<planes, serial>>
           ELSE \E body \in PlanBodies :
                LET req == [NoReq EXCEPT !.op = "createPlan", !.actor = actor,
                                !.body = body]
                    row == ReferenceRow(serial.planes + 1, body)
                IN
                IF MissingField(body)
                THEN /\ last' = Respond(req, 400, "Todos los campos son obligatorios.")
                     /\ UNCHANGED <<planes, serial>>
                ELSE /\ ReferenceInserts < MaxRefId
                     /\ serial' = [serial EXCEPT !.planes = @ + 1]
                     /\ IF ValueTaken(planes, NoId, body.value)
                        THEN /\ last' = Respond(req, 409, "El \"value\" del plan ya existe.")
                             /\ UNCHANGED planes
                        ELSE /\ planes' = planes \cup {row}
                             /\ last' = [Respond(req, 201, "") EXCEPT !.rows = <<row>>]

\* PUT /api/planes/:id
UpdatePlan ==
    \E actor \in Actors :
        /\ last = NoResp
        /\ UNCHANGED <<affiliations, now, inflight, users, empresas, fotos, serial, browsers, tokens>>
        /\ IF ~Authorize(Administrators, actor)
           THEN last' = AccessDenied("updatePlan", actor) /\ UNCHANGED planes
           ELSE \E id \in ReferenceIds, body \in PlanBodies :
                LET req == [NoReq EXCEPT !.op = "updatePlan", !.actor = actor,
                                !.id = id, !.body = body]
                    old == RowsById(planes, id)
                    row == ReferenceRow(id, body)
                IN
                IF MissingField(body)
                THEN /\ last' = Respond(req, 400, "Todos los campos son obligatorios.")
                     /\ UNCHANGED planes
                ELSE IF old = {}
                THEN /\ last' = Respond(req, 404, "Plan no encontrado.")
                     /\ UNCHANGED planes
                ELSE IF \/ ValueTaken(planes, id, body.value)
                        \/ \E r \in old : r.value # body.value /\ PlanInUse(r.value)
                THEN \* the UPDATE rejects; the catch block tells no code apart
                     /\ last' = Respond(req, 500, "Error al actualizar el plan.")
                     /\ UNCHANGED planes
                ELSE /\ planes' = (planes \ old) \cup {row}
                     /\ last' = [Respond(req, 200, "") EXCEPT !.rows = <<row>>]

\* DELETE /api/planes/:id
DeletePlan ==
    \E actor \in Actors :
        /\ last = NoResp
        /\ UNCHANGED <<affiliations, now, inflight, users, empresas, fotos, serial, browsers, tokens>>
        /\ IF ~Authorize(Administrators, actor)
           THEN last' = AccessDenied("deletePlan", actor) /\ UNCHANGED planes
           ELSE \E id \in ReferenceIds :
                LET req == [NoReq EXCEPT !.op = "deletePlan", !.actor = actor,
                                !.id = id]
                    old == RowsById(planes, id)
                IN
                IF \E r \in old : PlanInUse(r.value)
                THEN /\ last' = Respond(req, 409,
                            "No se puede eliminar el plan porque esta siendo utilizado por una o mas afiliaciones.")
                     /\ UNCHANGED planes
                ELSE /\ planes' = planes \ old
                     /\ last' = Respond(req, 204, "")

\* POST /api/empresas
CreateEmpresa ==
    \E actor \in Actors :
        /\ last = NoResp
        /\ UNCHANGED <<affiliations, now, inflight, users, planes, fotos, browsers, tokens>>
        /\ IF ~Authorize(Administrators, actor)
           THEN last' = AccessDenied("createEmpresa", actor) /\ UNCHANGED <<empresas, serial>>
           ELSE \E body \in EmpresaBodies :
                LET req == [NoReq EXCEPT !.op = "createEmpresa", !.actor = actor,
                                !.body = body]
                    row == ReferenceRow(serial.empresas + 1, body)
                IN
                IF MissingField(body)
                THEN /\ last' = Respond(req, 400,
                                    "Los campos label y value son obligatorios.")
                     /\ UNCHANGED <<empresas, serial>>
                ELSE /\ ReferenceInserts < MaxRefId
                     /\ serial' = [serial EXCEPT !.empresas = @ + 1]
                     /\ IF ValueTaken(empresas, NoId, body.value)
                        THEN /\ last' = Respond(req, 409,
                                            "El \"value\" de la empresa ya existe.")
                             /\ UNCHANGED empresas
                        ELSE /\ empresas' = empresas \cup {row}
                             /\ last' = [Respond(req, 201, "") EXCEPT !.rows = <<row>>]

\* PUT /api/empresas/:id
UpdateEmpresa ==
    \E actor \in Actors :
        /\ last = NoResp
        /\ UNCHANGED <<affiliations, now, inflight, users, planes, fotos, serial, browsers, tokens>>
        /\ IF ~Authorize(Administrators, actor)
           THEN last' = AccessDenied("updateEmpresa", actor) /\ UNCHANGED empresas
           ELSE \E id \in ReferenceIds, body \in EmpresaBodies :
                LET req == [NoReq EXCEPT !.op = "updateEmpresa", !.actor = actor,
                                !.id = id, !.body = body]
                    old == RowsById(empresas, id)
                    row == ReferenceRow(id, body)
                IN
                IF MissingField(body)
                THEN /\ last' = Respond(req, 400, "Todos los campos son obligatorios.")
                     /\ UNCHANGED empresas
                ELSE IF old = {}
                THEN /\ last' = Respond(req, 404, "Empresa no encontrada.")
                     /\ UNCHANGED empresas
                ELSE IF ValueTaken(empresas, id, body.value)
                THEN /\ last' = Respond(req, 500, "Error al actualizar la empresa.")
                     /\ UNCHANGED empresas
                ELSE /\ empresas' = (empresas \ old) \cup {row}
                     /\ last' = [Respond(req, 200, "") EXCEPT !.rows = <<row>>]

\* DELETE /api/empresas/:id, up to the answer of the usage query
DeleteEmpresa ==
    \E p \in Slots, actor \in Actors :
        /\ last = NoResp
        /\ UNCHANGED <<affiliations, now, users, planes, empresas, fotos, serial, browsers, tokens>>
        /\ IF ~Authorize(Administrators, actor)
           THEN last' = AccessDenied("deleteEmpresa", actor) /\ UNCHANGED inflight
           ELSE \E id \in ReferenceIds :
                LET req == [NoReq EXCEPT !.op = "deleteEmpresa", !.actor = actor,
                                !.id = id]
                IN
                IF EmpresaUsage(id)
                THEN /\ last' = Respond(req, 409,
                            "No se puede eliminar la empresa porque esta en uso.")
                     /\ UNCHANGED inflight
                ELSE /\ FreeSlot(p)
                     /\ inflight' = [inflight EXCEPT ![p] = Deleting(req)]
                     /\ UNCHANGED last

\* The rest of the handler: DELETE FROM empresas WHERE id = $1, then 204
DeleteEmpresaExec ==
    \E p \in Slots :
        /\ last = NoResp
        /\ inflight[p].phase = "delete"
        /\ inflight' = [inflight EXCEPT ![p] = Idle]
        /\ empresas' = empresas \ RowsById(empresas, inflight[p].req.id)
        /\ last' = Respond(inflight[p].req, 204, "")
        /\ UNCHANGED <<affiliations, now, users, planes, fotos, serial, browsers, tokens>>

----------------------------------------------------------------------------
(* Users and login: /api/users, /api/login *)

\* Bodies of POST /api/users: { full_name, email, password, codigo, role }.
UserBodies ==
    { [full_name |-> <<"C", "y">>, email |-> <<"C", "y">>,
       password |-> <<"c", "y">>, codigo |-> <<"7">>, role |-> "VENDEDOR"],
      [full_name |-> <<"A", "n", "a">>, email |-> <<"A", "N">>,
       password |-> <<"c", "y">>, codigo |-> Undefined, role |-> "GERENTE"],
      [full_name |-> <<"C", "y">>, email |-> <<"c", "y">>,
       password |-> Undefined, codigo |-> Undefined, role |-> "VENDEDOR"] }

\* Bodies of PUT /api/users/:id: { full_name, email, codigo, role }.
UserUpdates ==
    { [full_name |-> <<"A", "n", "a">>, email |-> <<"A", "n">>,
       codigo |-> <<"7">>, role |-> "SUPERVISOR"],
      [full_name |-> <<"A", "n", "a">>, email |-> <<"B", "O">>,
       codigo |-> Undefined, role |-> "VENDEDOR"],
      [full_name |-> <<"A", "n", "a">>, email |-> Undefined,
       codigo |-> Undefined, role |-> "VENDEDOR"] }

\* Ids a request on users may name: a seeded user and the ids that follow.
UserRequestIds == {1} \cup (Cardinality(SeedUsers) + 1 .. MaxUserId + 1)

\* Bodies of POST /api/login: { email, password }.
LoginBodies ==
    { [email |-> <<"a", "n">>, password |-> SeedPassword],
      [email |-> <<"A", "n">>, password |-> SeedPassword],
      [email |-> <<"a", "n">>, password |-> <<"c", "y">>],
      [email |-> <<"C", "Y">>, password |-> <<"c", "y">>],
      [email |-> <<"z", "z">>, password |-> SeedPassword],
      [email |-> Undefined, password |-> SeedPassword],
      [email |-> <<"a", "n">>, password |-> <<>>],
      [email |-> <<"a", "d">>, password |-> SeedPassword] }

\* Whether affiliations.user_id is declared a foreign key; the schema is not
\* part of the sources.
UserForeignKeys == {TRUE, FALSE}

\* String.prototype.toLowerCase over a text
ToLowerCase(s) == LowerText(s)

\* bcrypt.compare(password, hash): the hash was made from the password
BcryptCompare(password, hash) == hash = PasswordHash(password)

\* The unique indexes of users: another row holds the email or the codigo.
UserTaken(id, email, codigo) ==
    \E u \in users : /\ u.id # id
                     /\ \/ u.email = email
                        \/ codigo # NULL /\ u.codigo = codigo

\* SELECT * FROM users WHERE email = $1: result.rows, ordered by id
SelectByEmail(email) ==
    LET S == { u \in users : u.email = email }
        First(T) == CHOOSE u \in T : \A v \in T : u.id <= v.id
        Rows[T \in SUBSET S] ==
            IF T = {} THEN <<>> ELSE <<First(T)>> \o Rows[T \ {First(T)}]
    IN Rows[S]

\* The payload jwt.sign is given.
TokenOf(user) ==
    [userId |-> user.id, name |-> user.full_name, email |-> user.email,
     codigo |-> user.codigo, role |-> user.role]

\* expiresIn: "8h", in ticks of the clock
ExpiresIn == 2

\* jwt.sign(payload, secret, { expiresIn }): the payload with its expiry
Sign(payload, t) == [payload |-> payload, exp |-> t + ExpiresIn]

\* The tokens a login answer hands out at time t.
Issued(resp, t) == IF resp.code = 200 THEN {Sign(resp.token, t)} ELSE {}

\* jwt.verify(token, secret): the signature is the server's and the token
\* has not expired
Verify(token, t) == token \in tokens /\ t < token.exp

\* req.user = user: the decoded payload, of which the handlers read userId
\* and role
ReqUser(token) == [userId |-> token.payload.userId, role |-> token.payload.role]

\* The `user` object of the login response.
LoginUser(user) ==
    [name |-> user.full_name, email |-> user.email, codigo |-> user.codigo,
     role |-> user.role]

\* The columns RETURNING id, full_name, email, codigo, role gives.
ReturnedUser(u) ==
    [id |-> u.id, full_name |-> u.full_name, email |-> u.email,
     codigo |-> u.codigo, role |-> u.role]

\* GET /api/users
GetUsers ==
    \E actor \in Actors :
        /\ last = NoResp
        /\ UNCHANGED <<affiliations, now, inflight, otherTables>>
        /\ last' = IF ~Authorize(Administrators, actor)
                   THEN AccessDenied("users", actor)
                   ELSE [Respond([NoReq EXCEPT !.op = "users", !.actor = actor],
                                 200, "") EXCEPT
                            !.details = [users |-> { ReturnedUser(u) : u \in users }]]

\* POST /api/users
CreateUser ==
    \E actor \in Actors :
        /\ last = NoResp
        /\ UNCHANGED <<affiliations, now, inflight, planes, empresas, fotos, browsers, tokens>>
        /\ IF ~Authorize(Administrators, actor)
           THEN last' = AccessDenied("createUser", actor) /\ UNCHANGED <<users, serial>>
           ELSE \E body \in UserBodies :
                LET req == [NoReq EXCEPT !.op = "createUser", !.actor = actor,
                                !.body = body]
                    row == [id |-> serial.users + 1,
                            full_name |-> body.full_name,
                            email |-> ToLowerCase(body.email),
                            password_hash |-> PasswordHash(body.password),
                            codigo |-> SqlParam(body.codigo),
                            role |-> body.role]
                IN
                IF \/ Falsy(body.full_name) \/ Falsy(body.email)
                   \/ Falsy(body.password) \/ body.role = ""
                THEN /\ last' = Respond(req, 400, "Todos los campos son obligatorios.")
                     /\ UNCHANGED <<users, serial>>
                ELSE /\ serial.users < MaxUserId
                     /\ serial' = [serial EXCEPT !.users = @ + 1]
                     /\ IF UserTaken(NoId, row.email, row.codigo)
                        THEN /\ last' = Respond(req, 409,
                                    "El correo electronico o el codigo ya existen.")
                             /\ UNCHANGED users
                        ELSE /\ users' = users \cup {row}
                             /\ last' = [Respond(req, 201, "") EXCEPT
                                            !.rows = <<ReturnedUser(row)>>]

\* PUT /api/users/:id
UpdateUser ==
    \E actor \in Actors :
        /\ last = NoResp
        /\ UNCHANGED <<affiliations, now, inflight, planes, empresas, fotos, serial, browsers, tokens>>
        /\ IF ~Authorize(Administrators, actor)
           THEN last' = AccessDenied("updateUser", actor) /\ UNCHANGED users
           ELSE \E id \in UserRequestIds, body \in UserUpdates :
                LET req == [NoReq EXCEPT !.op = "updateUser", !.actor = actor,
                                !.id = id, !.body = body]
                    old == UsersById(users, id)
                    new == { [u EXCEPT !.full_name = body.full_name,
                                       !.email = ToLowerCase(body.email),
                                       !.codigo = SqlParam(body.codigo),
                                       !.role = body.role] : u \in old }
                IN
                IF body.email = Undefined
                THEN \* email.toLowerCase() throws inside the try block
                     /\ last' = Respond(req, 500, "Error al actualizar el usuario.")
                     /\ UNCHANGED users
                ELSE IF old = {}
                THEN /\ last' = Respond(req, 404, "Usuario no encontrado.")
                     /\ UNCHANGED users
                ELSE IF UserTaken(id, ToLowerCase(body.email), SqlParam(body.codigo))
                THEN /\ last' = Respond(req, 500, "Error al actualizar el usuario.")
                     /\ UNCHANGED users
                ELSE /\ users' = (users \ old) \cup new
                     /\ last' = [Respond(req, 200, "") EXCEPT
                                    !.rows = <<ReturnedUser(CHOOSE u \in new : TRUE)>>]

\* DELETE /api/users/:id
DeleteUser ==
    \E actor \in Actors :
        /\ last = NoResp
        /\ UNCHANGED <<affiliations, now, inflight, planes, empresas, fotos, serial, browsers, tokens>>
        /\ IF ~Authorize(Administrators, actor)
           THEN last' = AccessDenied("deleteUser", actor) /\ UNCHANGED users
           ELSE \E id \in UserRequestIds, foreignKey \in UserForeignKeys :
                LET req == [NoReq EXCEPT !.op = "deleteUser", !.actor = actor,
                                !.id = id]
                IN
                IF foreignKey /\ \E i \in 1 .. Len(affiliations) :
                                    affiliations[i].user_id = id
                THEN /\ last' = Respond(req, 500, "Error al eliminar el usuario.")
                     /\ UNCHANGED users
                ELSE /\ users' = users \ UsersById(users, id)
                     /\ last' = Respond(req, 204, "")

\* POST /api/login of src/index.js
Login ==
    \E body \in LoginBodies :
        LET req == [NoReq EXCEPT !.op = "login", !.body = body]
            rows == SelectByEmail(ToLowerCase(body.email))
        IN
        /\ last = NoResp
        /\ UNCHANGED <<affiliations, now, inflight, users, planes, empresas, fotos,
                       serial, browsers>>
        /\ last' =
             IF Falsy(body.email) \/ Falsy(body.password)
             THEN Respond(req, 400, "El correo y la contrasena son obligatorios.")
             ELSE IF rows = <<>>
             THEN Respond(req, 401, "Credenciales invalidas.")
             ELSE IF ~BcryptCompare(body.password, rows[1].password_hash)
             THEN Respond(req, 401, "Credenciales invalidas.")
             ELSE [Respond(req, 200, "") EXCEPT
                      !.token = TokenOf(rows[1]),
                      !.details = [user |-> LoginUser(rows[1])]]
        /\ tokens' = tokens \cup Issued(last', now)

\* POST /api/login of part_004: `user` is result.rows, the array
LoginDraft ==
    \E body \in LoginBodies :
        LET req == [NoReq EXCEPT !.op = "loginDraft", !.body = body]
            user == SelectByEmail(ToLowerCase(body.email))
        IN
        /\ last = NoResp
        /\ UNCHANGED <<affiliations, now, inflight, users, planes, empresas, fotos,
                       serial, browsers>>
        /\ last' =
             IF Falsy(body.email) \/ Falsy(body.password)
             THEN Respond(req, 400, "El correo y la contrasena son obligatorios.")
             ELSE IF ArrayProp(user, "password_hash") = JsUndefined
             THEN \* an array is truthy; bcrypt.compare(password, undefined) rejects
                  Respond(req, 500, "Error interno del servidor.")
             ELSE IF ~BcryptCompare(body.password, user[1].password_hash)
             THEN Respond(req, 401, "Credenciales invalidas.")
             ELSE [Respond(req, 200, "") EXCEPT !.token = TokenOf(user[1])]
        /\ tokens' = tokens \cup Issued(last', now)

----------------------------------------------------------------------------
(* Dashboard: POST /api/dashboard *)

DashboardReaders == {"SUPERVISOR", "GERENTE", "ADMINISTRADOR"}

\* formData documents of the records the dashboard aggregates.
FormData100 == [FormDataA EXCEPT !.total = <<"1", "0", "0">>]

FormData200 ==
    [nombreTitular |-> <<"b", "o">>, dniTitular |-> <<"2">>, plan |-> <<"y">>,
     total |-> <<"2", "0", "0">>, medioPago |-> <<"c">>]

FormData300 == [FormDataA EXCEPT !.total = <<"3", "0", "0">>]

\* Bodies of the dashboard requests; days are counted on the database clock,
\* NoId and Undefined stand for an absent field.
DashboardBodies ==
    LET All == [startDate |-> 1, endDate |-> 2, selectedVendor |-> Undefined,
                selectedPlan |-> Undefined, selectedMedioPago |-> Undefined,
                selectedEmpresa |-> Undefined]
    IN { All,
         [All EXCEPT !.endDate = 1],
         [All EXCEPT !.startDate = 2, !.selectedVendor = UserFullName(1)],
         [All EXCEPT !.selectedPlan = <<"x">>],
         [All EXCEPT !.selectedMedioPago = <<"c">>],
         [All EXCEPT !.selectedEmpresa = <<"e">>, !.selectedVendor = <<>>],
         [All EXCEPT !.startDate = NoId] }

\* A record as the review leaves it: the columns the status change writes.
Reviewed(row, status, reviewer) ==
    IF status \in {"Aprobado", "Rechazado"}
    THEN [row EXCEPT !.status = status,
                     !.status_change_user_id = reviewer,
                     !.status_change_timestamp = row.fecha_creacion,
                     !.rechazo_motivo =
                         RechazoMotivoParam(status, <<"d", "o", "c">>)]
    ELSE [row EXCEPT !.status = status]

\* The records a dashboard request may find: creator, formData, status, day.
DashboardRecords ==
    { [user_id |-> 1, form_data |-> FormData100, status |-> "Aprobado", day |-> 1],
      [user_id |-> 2, form_data |-> FormData200, status |-> "Aprobado", day |-> 1],
      [user_id |-> 1, form_data |-> FormData300, status |-> "Aprobado", day |-> 2],
      [user_id |-> 1, form_data |-> FormDataB, status |-> "Aprobado", day |-> 1],
      [user_id |-> 2, form_data |-> FormDataA, status |-> "Abierta", day |-> 1],
      [user_id |-> 1, form_data |-> FormDataA, status |-> "Presentado", day |-> 2],
      [user_id |-> 2, form_data |-> FormDataA, status |-> "Rechazado", day |-> 1] }

\* The affiliations tables holding up to MaxDashboard of those records.
DashboardTables ==
    { [i \in 1 .. n |->
          Reviewed(InsertedRow(i, s[i].user_id, s[i].form_data,
                       TitularNombre(s[i].form_data), NoId, NoId,
                       Undefined, Undefined, DraftInitialStatus, s[i].day),
                   s[i].status, 3)] :
      n \in 0 .. MaxDashboard, s \in [1 .. MaxDashboard -> DashboardRecords] }

\* The rows of affiliationsQuery: the creator joined, the range
\* fecha_creacion >= startDate AND fecha_creacion < endDate + 1 day, and one
\* clause for each filter the body gives.
DashboardRows(body) ==
    { i \in 1 .. Len(affiliations) :
        LET a == affiliations[i] IN
        /\ UsersById(users, a.user_id) # {}
        /\ a.fecha_creacion >= body.startDate
        /\ a.fecha_creacion < body.endDate + 1
        /\ ~Falsy(body.selectedVendor) =>
               JoinedFullName(a.user_id) = body.selectedVendor
        /\ ~Falsy(body.selectedPlan) => a.plan = body.selectedPlan
        /\ ~Falsy(body.selectedMedioPago) =>
               Prop(a.form_data, "medioPago") = body.selectedMedioPago
        /\ ~Falsy(body.selectedEmpresa) =>
               Prop(a.form_data, "empresa") = body.selectedEmpresa }

\* affiliations.filter((f) => f.status === status).length
CountStatus(ids, status) ==
    Cardinality({ i \in ids : affiliations[i].status = status })

\* parseFloat of an amount written in digits
ParseFloat(s) == ParseNumeral(s)

\* The rows with a total, whatever their status.
SoldAnyStatus(ids) ==
    { i \in ids : ~Falsy(Prop(affiliations[i].form_data, "total")) }

\* The rows the sum of ventasTotales takes: f.status === "Aprobado" && f.total
Sold(ids) ==
    { i \in ids : /\ affiliations[i].status = "Aprobado"
                  /\ ~Falsy(Prop(affiliations[i].form_data, "total")) }

\* .reduce((sum, f) => sum + parseFloat(f.total), 0)
RECURSIVE SumTotals(_)
SumTotals(ids) ==
    IF ids = {} THEN 0
    ELSE LET i == CHOOSE j \in ids : TRUE
         IN ParseFloat(affiliations[i].form_data.total) + SumTotals(ids \ {i})

RECURSIVE Gcd(_, _)
Gcd(a, b) == IF b = 0 THEN a ELSE Gcd(b, a % b)

\* The quotient n / d of two numbers, in lowest terms.
Quotient(n, d) ==
    [num |-> n \div Gcd(n, d), den |-> d \div Gcd(n, d)]

\* The number 0.
Zero == [num |-> 0, den |-> 1]

\* Number.prototype.toString of a natural number
RECURSIVE NumberText(_)
NumberText(n) ==
    IF n < 10 THEN <<Alphabet[CharRank("0") + n]>>
    ELSE NumberText(n \div 10) \o <<Alphabet[CharRank("0") + (n % 10)]>>

\* ((a / b) * 100).toFixed(1): one decimal, the nearer tenth, halves upwards
ToFixed1Percent(a, b) ==
    LET tenths == (2000 * a + b) \div (2 * b)
    IN NumberText(tenths \div 10) \o <<".">> \o NumberText(tenths % 10)

\* tasaAprobacion
TasaAprobacion(fichasAprobadas, totalFichas) ==
    IF totalFichas > 0
    THEN ToFixed1Percent(fichasAprobadas, totalFichas) \o <<"%">>
    ELSE <<"0", "%">>

\* ticketPromedio without its guard: the division is made for any count.
TicketPromedioUnguarded(ventasTotales, fichasAprobadas) ==
    [num |-> ventasTotales, den |-> fichasAprobadas]

\* ticketPromedio
TicketPromedio(ventasTotales, fichasAprobadas) ==
    IF fichasAprobadas > 0 THEN Quotient(ventasTotales, fichasAprobadas)
    ELSE Zero

\* The kpis of dashboardData that are counts and amounts.
Kpis(ids) ==
    LET totalFichas == Cardinality(ids)
        fichasAprobadas == CountStatus(ids, "Aprobado")
        ventasTotales == SumTotals(Sold(ids))
    IN [totalFichas |-> totalFichas,
        fichasAprobadas |-> fichasAprobadas,
        fichasRechazadas |-> CountStatus(ids, "Rechazado"),
        fichasPendientes |-> CountStatus(ids, "Presentado"),
        tasaAprobacion |-> TasaAprobacion(fichasAprobadas, totalFichas),
        ventasTotales |-> ventasTotales,
        ticketPromedio |-> TicketPromedio(ventasTotales, fichasAprobadas)]

\* The answer of the handler, the same in both revisions for these kpis.
DashboardAnswer(op, actor, body) ==
    LET req == [NoReq EXCEPT !.op = op, !.actor = actor, !.body = body]
    IN IF body.startDate = NoId \/ body.endDate = NoId
       THEN Respond(req, 400, "Se requiere un rango de fechas.")
       ELSE [Respond(req, 200, "") EXCEPT
                !.details = [kpis |-> Kpis(DashboardRows(body))]]

\* POST /api/dashboard of src/index.js
Dashboard ==
    \E actor \in Actors :
        /\ last = NoResp
        /\ UNCHANGED <<affiliations, now, inflight, otherTables>>
        /\ IF ~Authorize(DashboardReaders, actor)
           THEN last' = AccessDenied("dashboard", actor)
           ELSE \E body \in DashboardBodies :
                    last' = DashboardAnswer("dashboard", actor, body)

\* POST /api/dashboard of part_004
DashboardDraft ==
    \E actor \in Actors :
        /\ last = NoResp
        /\ UNCHANGED <<affiliations, now, inflight, otherTables>>
        /\ IF ~Authorize(DashboardReaders, actor)
           THEN last' = AccessDenied("dashboardDraft", actor)
           ELSE \E body \in DashboardBodies :
                    last' = DashboardAnswer("dashboardDraft", actor, body)

----------------------------------------------------------------------------
(* The PDF of an affiliation: GET /api/affiliations/:id/pdf *)

\* A handler of the PDF route between two of its awaits: the row it read,
\* the call it awaits, and its variable `browser` (NoId for null).
Rendering(req, row, stage, browser) ==
    [phase |-> "pdf", req |-> req, formData |-> UndefinedObject,
     row |-> row, stage |-> stage, browser |-> browser]

\* affiliationData: { ...result.rows[0].form_data, ...result.rows[0] }, the
\* columns of the row over the keys of its form_data
AffiliationData(row) == row @@ row.form_data

\* CloseIssued closing no browser.
CloseIssuedNever(browser) == FALSE

\* finally { if (browser) await browser.close() }
CloseIssued(browser) == browser # NoId

\* The slot after the handler's try or catch block has answered: awaiting
\* browser.close() when finally finds a browser, finished otherwise.
Finally(slot) ==
    IF CloseIssued(slot.browser)
    THEN Rendering(slot.req, slot.row, "close", slot.browser)
    ELSE Idle

\* catch (error): the answer of every failure inside the try block
PdfError(req) == Respond(req, 500, "No se pudo generar el PDF.")

\* The route, up to the templates being read: the row is selected; the route
\* has authenticateToken only, and the query names the id alone.
RenderPdf ==
    \E p \in Slots, actor \in Actors, id \in RequestIds :
        LET req == [NoReq EXCEPT !.op = "pdf", !.actor = actor, !.id = id]
            rows == SelectById(affiliations, id)
        IN
        /\ last = NoResp
        /\ FreeSlot(p)
        /\ UNCHANGED <<affiliations, now, otherTables>>
        /\ IF Len(rows) = 0
           THEN /\ last' = Respond(req, 404, "Afiliacion no encontrada.")
                /\ UNCHANGED inflight
           ELSE /\ inflight' = [inflight EXCEPT ![p] =
                                    Rendering(req, rows[1], "readFile", NoId)]
                /\ UNCHANGED last

\* fs.readFile of the template and of the style sheet, handlebars.compile and
\* template(dataForPdf): they give the HTML or one of them throws.
PdfReadFile ==
    \E p \in Slots, ok \in BOOLEAN :
        LET slot == inflight[p] IN
        /\ last = NoResp
        /\ slot.phase = "pdf" /\ slot.stage = "readFile"
        /\ UNCHANGED <<affiliations, now, otherTables>>
        /\ IF ok
           THEN /\ inflight' = [inflight EXCEPT ![p] =
                                    Rendering(slot.req, slot.row, "launch", NoId)]
                /\ UNCHANGED last
           ELSE /\ inflight' = [inflight EXCEPT ![p] = Finally(slot)]
                /\ last' = PdfError(slot.req)

\* browser = await puppeteer.launch(...): a new instance runs and is assigned
\* to `browser`, or the launch rejects and `browser` stays null.
PdfLaunch ==
    \E p \in Slots, ok \in BOOLEAN :
        LET slot == inflight[p] IN
        /\ last = NoResp
        /\ slot.phase = "pdf" /\ slot.stage = "launch"
        /\ UNCHANGED <<affiliations, now, users, planes, empresas, fotos, serial, tokens>>
        /\ IF ok
           THEN /\ Len(browsers) < MaxBrowsers
                /\ browsers' = Append(browsers, [owner |-> p, open |-> TRUE])
                /\ inflight' = [inflight EXCEPT ![p] =
                        Rendering(slot.req, slot.row, "newPage", Len(browsers) + 1)]
                /\ UNCHANGED last
           ELSE /\ inflight' = [inflight EXCEPT ![p] = Finally(slot)]
                /\ last' = PdfError(slot.req)
                /\ UNCHANGED browsers

\* const page = await browser.newPage(): it resolves and the handler goes on,
\* or it rejects: catch answers and finally closes the browser.
PdfNewPage ==
    \E p \in Slots, ok \in BOOLEAN :
        LET slot == inflight[p] IN
        /\ last = NoResp
        /\ slot.phase = "pdf" /\ slot.stage = "newPage"
        /\ UNCHANGED <<affiliations, now, otherTables>>
        /\ IF ok
           THEN /\ inflight' = [inflight EXCEPT ![p] =
                        Rendering(slot.req, slot.row, "setContent", slot.browser)]
                /\ UNCHANGED last
           ELSE /\ inflight' = [inflight EXCEPT ![p] = Finally(slot)]
                /\ last' = PdfError(slot.req)

\* await page.setContent(finalHtml, { waitUntil: "networkidle0" })
PdfSetContent ==
    \E p \in Slots, ok \in BOOLEAN :
        LET slot == inflight[p] IN
        /\ last = NoResp
        /\ slot.phase = "pdf" /\ slot.stage = "setContent"
        /\ UNCHANGED <<affiliations, now, otherTables>>
        /\ IF ok
           THEN /\ inflight' = [inflight EXCEPT ![p] =
                        Rendering(slot.req, slot.row, "pdf", slot.browser)]
                /\ UNCHANGED last
           ELSE /\ inflight' = [inflight EXCEPT ![p] = Finally(slot)]
                /\ last' = PdfError(slot.req)

\* const pdfBuffer = await page.pdf(...); res.send(pdfBuffer): the document
\* rendered from affiliationData is the answer
PdfPrint ==
    \E p \in Slots, ok \in BOOLEAN :
        LET slot == inflight[p] IN
        /\ last = NoResp
        /\ slot.phase = "pdf" /\ slot.stage = "pdf"
        /\ UNCHANGED <<affiliations, now, otherTables>>
        /\ inflight' = [inflight EXCEPT ![p] = Finally(slot)]
        /\ last' = IF ok
                   THEN [Respond(slot.req, 200, "") EXCEPT
                            !.details = AffiliationData(slot.row)]
                   ELSE PdfError(slot.req)

\* await browser.close() resolves: the instance is gone and the handler ends
PdfClose ==
    \E p \in Slots :
        LET slot == inflight[p] IN
        /\ slot.phase = "pdf" /\ slot.stage = "close"
        /\ browsers' = [browsers EXCEPT ![slot.browser].open = FALSE]
        /\ inflight' = [inflight EXCEPT ![p] = Idle]
        /\ UNCHANGED <<affiliations, now, last, users, planes, empresas, fotos, serial,
                       tokens>>

----------------------------------------------------------------------------
(* Tokens: authenticateToken before the routes *)

\* Authorization headers that jwt.verify does not accept, or that carry no
\* token: none, a token with another signature, one of the server's own
\* tokens after its expiry.
RefusedHeaders == {"none", "forged", "expired"}

\* authenticateToken refusing a request: 401 without a token, 403 when
\* jwt.verify fails.  No route handler runs.
Unauthenticated ==
    \E header \in RefusedHeaders :
        /\ last = NoResp
        /\ header = "expired" => \E t \in tokens : ~Verify(t, now)
        /\ last' = IF header = "none"
                   THEN Respond([NoReq EXCEPT !.op = "unauthenticated"], 401,
                            "Unauthorized")
                   ELSE Respond([NoReq EXCEPT !.op = "unauthenticated"], 403,
                            "Forbidden")
        /\ UNCHANGED <<affiliations, now, inflight, otherTables>>

\* The request a step takes: the one it answers at once, or the one it
\* leaves pending in a slot.
Taken ==
    IF last = NoResp /\ last' # NoResp /\ inflight' = inflight
    THEN last'.req
    ELSE LET p == CHOOSE p \in Slots : inflight[p] = Idle /\ inflight'[p] # Idle
         IN inflight'[p].req

\* A route behind authenticateToken: the request bears a token that
\* jwt.verify accepts, and its payload is the req.user the route reads.
Bearing(A) ==
    A /\ \E t \in tokens : Verify(t, now) /\ Taken.actor = ReqUser(t)

\* Such a route whose INSERT names the caller in user_id, while the caller's
\* row is in users, so that a foreign key on user_id, declared or not, is met.
StoredCaller(A) ==
    Bearing(A) /\ UsersById(users, Taken.actor.userId) # {}

\* A login while at most MaxTokens tokens have been handed out.
Issuing(A) ==
    A /\ Cardinality(tokens') <= MaxTokens

\* Time passes.
Tick ==
    /\ last = NoResp
    /\ now < MaxClock
    /\ now' = now + 1
    /\ UNCHANGED <<affiliations, inflight, last, otherTables>>

----------------------------------------------------------------------------
Next ==
    \/ SubmitFicha
    \/ CreateAffiliation
    \/ UpdateAffiliation
    \/ PresentAffiliation
    \/ ChangeStatus
    \/ ChangeStatusDraft
    \/ ExecWrite
    \/ Deliver

Spec == Init /\ [][Next]_vars

\* The listing handlers over a table that grows while they run.
NextList ==
    \/ SubmitFichaListed
    \/ CreateAffiliationListed
    \/ ListCount
    \/ ListSelect
    \/ ListDraft
    \/ Deliver

SpecList == Init /\ [][NextList]_vars

\* The detail handlers over the records and their photos.
NextDetail ==
    \/ SubmitFicha
    \/ CreateAffiliation
    \/ UploadFoto
    \/ GetDetail
    \/ GetDetailFotos
    \/ GetDetailDraft
    \/ Deliver

SpecDetail == Init /\ [][NextDetail]_vars

\* The reference tables, written while affiliations are submitted.
NextReference ==
    \/ SubmitFicha
    \/ CreatePlan
    \/ UpdatePlan
    \/ DeletePlan
    \/ CreateEmpresa
    \/ UpdateEmpresa
    \/ DeleteEmpresa
    \/ DeleteEmpresaExec
    \/ Deliver

SpecReference == Init /\ [][NextReference]_vars

\* The users table and the logins against it.
NextUsers ==
    \/ GetUsers
    \/ CreateUser
    \/ UpdateUser
    \/ DeleteUser
    \/ Login
    \/ LoginDraft
    \/ Deliver

SpecUsers == Init /\ [][NextUsers]_vars

\* The dashboard over the tables the workflow can leave.
InitDashboard ==
    /\ affiliations \in DashboardTables
    /\ now = 3
    /\ inflight = [p \in Slots |-> Idle]
    /\ last = NoResp
    /\ users = SeedUsers
    /\ planes = {}
    /\ empresas = {}
    /\ fotos = <<>>
    /\ serial = [users |-> Cardinality(SeedUsers), planes |-> 0, empresas |-> 0]
    /\ browsers = <<>>
    /\ tokens = {}

NextDashboard ==
    \/ Dashboard
    \/ DashboardDraft
    \/ Deliver

SpecDashboard == InitDashboard /\ [][NextDashboard]_vars

\* The PDF route over a table that is being filled.
NextPdf ==
    \/ SubmitFicha
    \/ RenderPdf
    \/ PdfReadFile
    \/ PdfLaunch
    \/ PdfNewPage
    \/ PdfSetContent
    \/ PdfPrint
    \/ PdfClose
    \/ Deliver

SpecPdf == Init /\ [][NextPdf]_vars

\* An action of the server while at most MaxServing handlers are awaiting.
Serving(A) ==
    A /\ Cardinality({p \in Slots : inflight'[p] # Idle}) <= MaxServing

\* The routes of src/index.js open to a VENDEDOR on affiliations: the
\* listing, the detail, the PDF and the photo upload, over a table that is
\* being filled.
NextVendor ==
    \/ Serving(SubmitFicha)
    \/ Serving(ListCount)
    \/ Serving(ListSelect)
    \/ Serving(GetDetail)
    \/ Serving(GetDetailFotos)
    \/ Serving(UploadFoto)
    \/ Serving(RenderPdf)
    \/ Serving(PdfReadFile)
    \/ Serving(PdfLaunch)
    \/ Serving(PdfNewPage)
    \/ Serving(PdfSetContent)
    \/ Serving(PdfPrint)
    \/ Serving(PdfClose)
    \/ Serving(Deliver)

SpecVendor == Init /\ [][NextVendor]_vars

\* Login, the administration of users, and routes that authorize by role
\* and scope by caller, every request bearing a token handed out at login.
NextTokens ==
    \/ Issuing(Login)
    \/ Unauthenticated
    \/ Bearing(GetUsers)
    \/ Bearing(UpdateUser)
    \/ Bearing(DeleteUser)
    \/ StoredCaller(SubmitFicha)
    \/ Bearing(ChangeStatus)
    \/ ExecWrite
    \/ Bearing(GetDetail)
    \/ GetDetailFotos
    \/ Tick
    \/ Deliver

SpecTokens == Init /\ [][NextTokens]_vars

\* The tables that have been written since the server started.
Written ==
    { t \in {"affiliations", "fotos", "users", "planes", "empresas"} :
        CASE t = "affiliations" -> affiliations # <<>>
          [] t = "fotos" -> fotos # <<>>
          [] t = "users" -> users # SeedUsers \/ serial.users # Cardinality(SeedUsers)
          [] t = "planes" -> serial.planes # 0
          [] OTHER -> serial.empresas # 0 }

\* An action of the store while at most MaxGated tables are written.
Gated(A) == A /\ Cardinality(Written') <= MaxGated

\* The routes behind authorize on affiliations, users, reference data and the
\* dashboard (the routes on circulares are not part of the model).
NextGated ==
    \/ Gated(SubmitFicha)
    \/ Gated(CreateAffiliation)
    \/ Gated(UpdateAffiliation)
    \/ Gated(PresentAffiliation)
    \/ Gated(ChangeStatus)
    \/ Gated(ChangeStatusDraft)
    \/ Gated(ExecWrite)
    \/ Gated(UploadFoto)
    \/ Gated(GetUsers)
    \/ Gated(CreateUser)
    \/ Gated(UpdateUser)
    \/ Gated(DeleteUser)
    \/ Gated(CreatePlan)
    \/ Gated(UpdatePlan)
    \/ Gated(DeletePlan)
    \/ Gated(CreateEmpresa)
    \/ Gated(UpdateEmpresa)
    \/ Gated(DeleteEmpresa)
    \/ Gated(DeleteEmpresaExec)
    \/ Gated(Dashboard)
    \/ Gated(DashboardDraft)
    \/ Gated(Deliver)

SpecGated == Init /\ [][NextGated]_vars

----------------------------------------------------------------------------
(* Vocabulary of the properties *)

StatusOps == {"status", "statusDraft"}

RowExists(id) == id \in 1 .. Len(affiliations)

\* A step in which a handler answers at once, without issuing a write.
AnswersAtOnce == last = NoResp /\ last' # NoResp /\ inflight' = inflight

\* A motivo that is missing, empty or made of blanks only.
Blank(m) == m \in {Undefined, NULL} \/ \A i \in 1 .. Len(m) : m[i] = " "

\* The body of a status-change request passes the validation of the contract.
ValidStatusBody(r) ==
    /\ r.newStatus \in {"Aprobado", "Rechazado"}
    /\ r.newStatus = "Rechazado" => ~Blank(r.motivo)

\* The caller may edit the row under the contract: its creator, or a reviewer.
MayEdit(r) ==
    \/ r.actor.role \in {"SUPERVISOR", "ADMINISTRADOR"}
    \/ r.actor.role = "VENDEDOR" /\ affiliations[r.id].user_id = r.actor.userId

AllowedTransitions ==
    { <<"Abierta", "Presentado">>, <<"Presentado", "Aprobado">>,
      <<"Presentado", "Rechazado">> }

----------------------------------------------------------------------------
(* C1: every change of an affiliation's status is Abierta->Presentado,
   Presentado->Aprobado or Presentado->Rechazado, so a record in Aprobado or
   Rechazado never changes status again, in sequential and interleaved runs. *)
C1_OnlyAllowedTransitions ==
    [][\A id \in 1 .. Len(affiliations) :
          affiliations'[id].status # affiliations[id].status
              => <<affiliations[id].status, affiliations'[id].status>>
                     \in AllowedTransitions]_vars

(* C2: a status-change request with a valid body on an existing row whose
   status is not Presentado is answered 409 with the status read in the
   message, issues no write and leaves the table unchanged. *)
C2_NotPresentadoConflicts ==
    [][/\ (/\ AnswersAtOnce
           /\ last'.req.op \in StatusOps
           /\ ValidStatusBody(last'.req)
           /\ RowExists(last'.req.id)
           /\ affiliations[last'.req.id].status # "Presentado")
          => /\ last'.code = 409
             /\ last'.message =
                    StatusConflictMessage(affiliations[last'.req.id].status)
             /\ affiliations' = affiliations
       /\ \A p \in Slots :
            (/\ inflight[p] = Idle
             /\ inflight'[p] # Idle
             /\ inflight'[p].req.op \in StatusOps)
            => /\ RowExists(inflight'[p].req.id)
               /\ affiliations[inflight'[p].req.id].status = "Presentado"]_vars

\* A reviewer was answered 409 on a row that is already Aprobado.
C2_Witness ==
    /\ last.req.op = "status"
    /\ last.code = 409
    /\ ValidStatusBody(last.req)
    /\ RowExists(last.req.id)
    /\ affiliations[last.req.id].status = "Aprobado"
    /\ last.message = "Esta afiliacion ya esta en estado 'Aprobado' y no se puede cambiar."

(* C3: a status-change request with newStatus Rechazado and a motivo that is
   missing, empty or blank is answered 400 whatever the row, and neither
   writes nor leaves a write pending. *)
C3_RejectionNeedsMotivo ==
    [][/\ (/\ last = NoResp
           /\ last' # NoResp
           /\ last'.req.op \in StatusOps
           /\ last'.req.newStatus = "Rechazado"
           /\ Blank(last'.req.motivo))
          => /\ last'.code = 400
             /\ affiliations' = affiliations
             /\ inflight' = inflight
       /\ \A p \in Slots :
            (/\ inflight'[p] # Idle
             /\ inflight'[p].req.op \in StatusOps
             /\ inflight'[p].req.newStatus = "Rechazado")
            => ~Blank(inflight'[p].req.motivo)]_vars

\* A rejection with a motivo of blanks was answered 400 on a Presentado row.
C3_Witness ==
    /\ last.req.op = "status"
    /\ last.req.newStatus = "Rechazado"
    /\ last.req.motivo = <<" ">>
    /\ last.code = 400
    /\ RowExists(last.req.id)
    /\ affiliations[last.req.id].status = "Presentado"

(* C4: a status-change request by a SUPERVISOR or ADMINISTRADOR with a valid
   body on a row in Presentado succeeds: it is not refused, and once its write
   has run the answer is 200 and the row carries the new status, the caller's
   id and the motivo (null for Aprobado), which the answer repeats. *)
C4_ReviewOfPresentadoSucceeds ==
    [][/\ (/\ AnswersAtOnce
           /\ last'.req.op \in StatusOps
           /\ ValidStatusBody(last'.req)
           /\ RowExists(last'.req.id)
           /\ affiliations[last'.req.id].status = "Presentado")
          => last'.code = 200
       /\ \A p \in Slots :
            (/\ inflight[p] # Idle
             /\ inflight'[p] = Idle
             /\ inflight[p].req.op \in StatusOps)
            => LET r == inflight[p].req
                   row == affiliations'[r.id]
               IN /\ last'.code = 200
                  /\ row.status = r.newStatus
                  /\ row.status_change_user_id = r.actor.userId
                  /\ row.rechazo_motivo =
                        (IF r.newStatus = "Rechazado" THEN r.motivo ELSE NULL)
                  /\ last'.newStatus = JsStr(r.newStatus)
                  /\ last'.timestamp = row.status_change_timestamp
                  /\ last'.motivo = row.rechazo_motivo]_vars

(* C5: in every reachable state and for every affiliation, rechazo_motivo is
   non-empty exactly when status is Rechazado. *)
C5_MotivoIffRechazado ==
    \A id \in 1 .. Len(affiliations) :
        (affiliations[id].rechazo_motivo \notin {NULL, <<>>})
            <=> (affiliations[id].status = "Rechazado")

\* A row was rejected and carries the motivo of the request.
C5_Witness ==
    \E id \in 1 .. Len(affiliations) :
        /\ affiliations[id].status = "Rechazado"
        /\ affiliations[id].rechazo_motivo = <<"d", "o", "c">>

(* C6: an update request on a row whose status is not Abierta, by a caller
   who may edit it, is answered 409 and leaves the table unchanged; no update
   goes on to its write unless the row it read is in Abierta. *)
C6_UpdateOutsideDraftConflicts ==
    [][/\ (/\ AnswersAtOnce
           /\ last'.req.op = "update"
           /\ RowExists(last'.req.id)
           /\ MayEdit(last'.req)
           /\ affiliations[last'.req.id].status # "Abierta")
          => /\ last'.code = 409
             /\ affiliations' = affiliations
       /\ \A p \in Slots :
            (/\ inflight[p] = Idle
             /\ inflight'[p] # Idle
             /\ inflight'[p].req.op = "update")
            => /\ RowExists(inflight'[p].req.id)
               /\ affiliations[inflight'[p].req.id].status = "Abierta"]_vars

(* C7: an update request on a row in Abierta by its creator or a reviewer
   succeeds and the row then holds the submitted formData, promoted fields
   and coordinates, with the status unchanged. *)
C7_UpdateOfDraftSucceeds ==
    (/\ last.req.op = "update"
     /\ RowExists(last.req.id)
     /\ MayEdit(last.req)
     /\ last.req.formData # UndefinedObject
     /\ affiliations[last.req.id].status = "Abierta")
    => /\ last.code = 200
       /\ affiliations[last.req.id].form_data = last.req.formData
       /\ affiliations[last.req.id].titular_nombre = TitularNombre(last.req.formData)
       /\ affiliations[last.req.id].latitud = last.req.latitud
       /\ affiliations[last.req.id].longitud = last.req.longitud

\* An update or present request of a VENDEDOR on a row of another user.
ForeignVendorRequest(r) ==
    /\ r.op \in {"update", "present"}
    /\ r.actor.role = "VENDEDOR"
    /\ RowExists(r.id)
    /\ affiliations[r.id].user_id # r.actor.userId

(* C8 as stated: an update or present request by a VENDEDOR on a row of
   another user is answered 403 and leaves the row unchanged. *)
C8_ForeignVendorForbidden ==
    [][(last = NoResp /\ last' # NoResp /\ ForeignVendorRequest(last'.req))
          => last'.code = 403 /\ affiliations' = affiliations]_vars

(* C8 amended: such a request is answered 403, or 400 when it is a present
   request without numeroSolicitud, it leaves the table unchanged and
   issues no write. *)
C8_ForeignVendorRefused ==
    [][/\ (last = NoResp /\ last' # NoResp /\ ForeignVendorRequest(last'.req))
          => /\ last'.code =
                    (IF last'.req.op = "present" /\ Falsy(last'.req.numeroSolicitud)
                     THEN 400 ELSE 403)
             /\ affiliations' = affiliations
             /\ inflight' = inflight
       /\ \A p \in Slots :
            (inflight[p] = Idle /\ inflight'[p] # Idle)
            => ~ForeignVendorRequest(inflight'[p].req)]_vars

\* A VENDEDOR was answered 403 on presenting, with a number, the draft of another.
C8_Witness ==
    /\ ForeignVendorRequest(last.req)
    /\ last.req.op = "present"
    /\ ~Falsy(last.req.numeroSolicitud)
    /\ affiliations[last.req.id].status = "Abierta"
    /\ last.code = 403

(* C9: a present request of a VENDEDOR with a numeroSolicitud on the
   VENDEDOR's own row is answered 200 when the row is in Abierta, and the row
   is then Presentado with formData.solicitud the given number; when the row
   is no longer in Abierta, as after a first present, it is answered 409 and
   the table is unchanged. *)
C9_OwnDraftIsPresented ==
    [][(/\ last = NoResp
        /\ last' # NoResp
        /\ last'.req.op = "present"
        /\ last'.req.actor.role = "VENDEDOR"
        /\ ~Falsy(last'.req.numeroSolicitud)
        /\ RowExists(last'.req.id)
        /\ affiliations[last'.req.id].user_id = last'.req.actor.userId)
       => IF affiliations[last'.req.id].status = "Abierta"
          THEN /\ last'.code = 200
               /\ affiliations'[last'.req.id].status = "Presentado"
               /\ Prop(affiliations'[last'.req.id].form_data, "solicitud")
                      = last'.req.numeroSolicitud
          ELSE /\ last'.code = 409
               /\ affiliations' = affiliations]_vars

\* The rows of the table that belong to the caller of request r.
OwnIds(r) ==
    { id \in 1 .. Len(affiliations) : affiliations[id].user_id = r.actor.userId }

(* C10: for a caller with role VENDEDOR, the count the list operation takes
   is at most the number of the caller's rows, and exactly that number when
   there is no filter; every row a list answer carries is a row of the
   caller; and the totalRows answered is the count taken. *)
C10_VendorListsOwnRowsOnly ==
    [][/\ \A p \in Slots :
            (/\ inflight[p] = Idle
             /\ inflight'[p] # Idle
             /\ inflight'[p].req.op = "list"
             /\ inflight'[p].req.actor.role = "VENDEDOR")
            => /\ inflight'[p].totalRows <= Cardinality(OwnIds(inflight'[p].req))
               /\ Falsy(inflight'[p].req.filter)
                    => inflight'[p].totalRows = Cardinality(OwnIds(inflight'[p].req))
       /\ (/\ last = NoResp
           /\ last' # NoResp
           /\ last'.req.op \in {"list", "listDraft"}
           /\ last'.req.actor.role = "VENDEDOR")
          => /\ \A i \in 1 .. Len(last'.rows) :
                    last'.rows[i].id \in OwnIds(last'.req)
             /\ (last'.req.op = "list" /\ last'.code = 200)
                    => \E p \in Slots :
                          /\ inflight[p].req = last'.req
                          /\ last'.totalRows = JsNum(inflight[p].totalRows)]_vars

\* A VENDEDOR listing with a filter was answered the one row of their own,
\* counted 1, while a row of another user passes the same filter.
C10_Witness ==
    /\ last.req.op = "list"
    /\ last.req.actor = [userId |-> 1, role |-> "VENDEDOR"]
    /\ last.req.filter = <<"b", "o">>
    /\ last.code = 200
    /\ Len(last.rows) = 1
    /\ last.totalRows = JsNum(1)
    /\ \E id \in 1 .. Len(affiliations) :
          /\ affiliations[id].user_id = 2
          /\ ILike(UserFullName(affiliations[id].user_id), last.req.filter)

\* The answer given when the detail query finds no row.
DetailNotFound(resp) ==
    /\ resp.code = 404
    /\ resp.message = "Afiliacion no encontrada o sin permiso."
    /\ resp.details = UndefinedObject

(* C11: a detail request of a VENDEDOR for an existing row of another user is
   answered as for an id that does not exist, 404 without details, and never
   goes on to read the photos; a detail request of a SUPERVISOR, GERENTE or
   ADMINISTRADOR for an existing row is answered 200 with the details of that
   row: its id, status, coordinates and creator. *)
C11_DetailRestrictedToOwner ==
    [][/\ (/\ last = NoResp
           /\ last' # NoResp
           /\ last'.req.op \in {"detail", "detailDraft"}
           /\ RowExists(last'.req.id))
          => IF last'.req.actor.role = "VENDEDOR"
             THEN affiliations[last'.req.id].user_id # last'.req.actor.userId
                      => DetailNotFound(last')
             ELSE /\ last'.code = 200
                  /\ {"id", "status", "latitud", "creatorUserName"}
                         \subseteq DOMAIN last'.details
                  /\ last'.details["id"] = last'.req.id
                  /\ last'.details["status"] = affiliations[last'.req.id].status
                  /\ last'.details["latitud"] = affiliations[last'.req.id].latitud
                  /\ last'.details["creatorUserName"]
                         = UserFullName(affiliations[last'.req.id].user_id)
       /\ \A p \in Slots :
            (/\ inflight[p] = Idle
             /\ inflight'[p] # Idle
             /\ inflight'[p].req.op = "detail"
             /\ inflight'[p].req.actor.role = "VENDEDOR")
            => affiliations[inflight'[p].req.id].user_id = inflight'[p].req.actor.userId]_vars

\* The roles the contract admits to each operation behind a role gate.
AllowedRoles(op) ==
    CASE op \in {"status", "statusDraft"} -> {"SUPERVISOR", "ADMINISTRADOR"}
      [] op \in {"users", "createUser", "updateUser", "deleteUser",
                 "createPlan", "updatePlan", "deletePlan",
                 "createEmpresa", "updateEmpresa", "deleteEmpresa"} ->
             {"ADMINISTRADOR"}
      [] op \in {"dashboard", "dashboardDraft"} ->
             {"SUPERVISOR", "GERENTE", "ADMINISTRADOR"}
      [] op \in {"submit-ficha", "create", "update", "present", "fotos"} ->
             {"VENDEDOR", "SUPERVISOR", "ADMINISTRADOR"}
      [] OTHER -> {"VENDEDOR", "SUPERVISOR", "GERENTE", "ADMINISTRADOR", "none"}

\* Everything the handlers keep in the database.
Store == <<affiliations, users, planes, empresas, fotos, serial, now, browsers>>

(* C12: a request whose token role is outside the allow-list of its operation
   (status change: SUPERVISOR, ADMINISTRADOR; users, planes and empresas:
   ADMINISTRADOR; dashboard: SUPERVISOR, GERENTE, ADMINISTRADOR; submit,
   create, update, present and photo upload: VENDEDOR, SUPERVISOR,
   ADMINISTRADOR) is answered 403 in the step that takes it, with nothing of
   the store in the answer, the store unchanged and no statement left
   pending; no pending statement belongs to such a request, and every step
   that changes the store answers, or completes, a request of a permitted
   role. *)
C12_OutsideAllowListForbidden ==
    [][ /\ ( /\ last = NoResp
             /\ last' # NoResp
             /\ last'.req.actor.role \notin AllowedRoles(last'.req.op) )
           => /\ last'.code = 403
              /\ last'.rows = <<>>
              /\ last'.details = UndefinedObject
              /\ last'.totalRows = JsUndefined
              /\ last'.token = UndefinedObject
              /\ UNCHANGED <<Store, inflight>>
        /\ \A p \in Slots :
              inflight'[p] # Idle =>
                  inflight'[p].req.actor.role \in AllowedRoles(inflight'[p].req.op)
        /\ Store' # Store =>
              \/ /\ last' # NoResp
                 /\ last'.req.actor.role \in AllowedRoles(last'.req.op)
                 /\ last'.code # 403
              \/ \E p \in Slots : inflight[p] # Idle /\ inflight'[p] = Idle
      ]_vars

\* A VENDEDOR asked for the review of a Presentado record and was refused.
C12_Witness ==
    /\ last.code = 403
    /\ last.req.op = "status"
    /\ last.req.actor.role = "VENDEDOR"
    /\ Len(affiliations) = 1
    /\ affiliations[1].status = "Presentado"
    /\ affiliations[1].status_change_user_id = NoId

\* The users whose stored email is the lower-cased email of the body and
\* whose stored hash the password of the body matches.
Credentialed(body) ==
    { u \in users : /\ u.email = LowerText(body.email)
                    /\ u.password_hash = PasswordHash(body.password) }

(* C13: a login request with a missing email or password is answered 400
   without a token; one whose lower-cased email belongs to no user, or whose
   password does not match that user's stored hash, is answered 401
   "Credenciales invalidas." without a token; a token is issued only for a
   user with that email and a matching password, and it carries that user's
   id. *)
C13_LoginChecksCredentials ==
    last.req.op \in {"login", "loginDraft"} =>
        LET body == last.req.body
            missing == Falsy(body.email) \/ Falsy(body.password)
        IN /\ missing => last.code = 400 /\ last.token = UndefinedObject
           /\ (~missing /\ Credentialed(body) = {}) =>
                  /\ last.code = 401
                  /\ last.message = "Credenciales invalidas."
                  /\ last.token = UndefinedObject
           /\ last.token # UndefinedObject =>
                  /\ ~missing
                  /\ \E u \in Credentialed(body) : last.token.userId = u.id

DashboardOps == {"dashboard", "dashboardDraft"}

\* The kpis of an answered dashboard request.
AnsweredKpis == last.details.kpis

\* A dashboard request was answered with its kpis.
DashboardAnswered == last.req.op \in DashboardOps /\ last.code = 200

(* C14: in every dashboard answer, totalFichas is the sum of
   fichasAprobadas, fichasRechazadas and fichasPendientes, whatever the
   table, the range and the filters, records in Abierta included. *)
C14_TotalIsSumOfStatusCounts ==
    DashboardAnswered =>
        AnsweredKpis.totalFichas =
            AnsweredKpis.fichasAprobadas + AnsweredKpis.fichasRechazadas
                + AnsweredKpis.fichasPendientes

(* C15: in every dashboard answer, ticketPromedio is the quotient of
   ventasTotales by fichasAprobadas when fichasAprobadas is positive and the
   number 0 when it is not; no quotient has a zero divisor; and
   tasaAprobacion is the text "0%" when totalFichas is 0. *)
C15_TicketAndRateGuardZero ==
    DashboardAnswered =>
        LET k == AnsweredKpis IN
        /\ k.ticketPromedio.den # 0
        /\ k.fichasAprobadas > 0 =>
               k.ticketPromedio.num * k.fichasAprobadas
                   = k.ventasTotales * k.ticketPromedio.den
        /\ k.fichasAprobadas = 0 => k.ticketPromedio = [num |-> 0, den |-> 1]
        /\ k.totalFichas = 0 => k.tasaAprobacion = <<"0", "%">>

\* Two approved records worth 300 among three in the range: a ticket of 150.
C15_Witness ==
    /\ DashboardAnswered
    /\ AnsweredKpis.totalFichas = 3
    /\ AnsweredKpis.fichasAprobadas = 2
    /\ AnsweredKpis.ventasTotales = 300
    /\ AnsweredKpis.ticketPromedio = [num |-> 150, den |-> 1]
    /\ AnsweredKpis.tasaAprobacion = <<"6", "6", ".", "7", "%">>

\* The records of the table that lie in the range and pass the filters of a
\* dashboard request, as the contract words them.
Selected(body) ==
    { i \in 1 .. Len(affiliations) :
        LET a == affiliations[i] IN
        /\ body.startDate <= a.fecha_creacion
        /\ a.fecha_creacion <= body.endDate
        /\ body.selectedVendor \notin {Undefined, <<>>} =>
               UserFullName(a.user_id) = body.selectedVendor
        /\ body.selectedPlan \notin {Undefined, <<>>} =>
               Prop(a.form_data, "plan") = body.selectedPlan
        /\ body.selectedMedioPago \notin {Undefined, <<>>} =>
               Prop(a.form_data, "medioPago") = body.selectedMedioPago
        /\ body.selectedEmpresa \notin {Undefined, <<>>} =>
               Prop(a.form_data, "empresa") = body.selectedEmpresa }

\* formData.total of a record as an amount, 0 when the record has none.
TotalOf(i) ==
    IF "total" \in DOMAIN affiliations[i].form_data
    THEN ParseNumeral(affiliations[i].form_data.total)
    ELSE 0

\* The sum of the totals of the approved records among ids.
RECURSIVE ApprovedRevenue(_)
ApprovedRevenue(ids) ==
    IF ids = {} THEN 0
    ELSE LET i == CHOOSE j \in ids : TRUE
         IN (IF affiliations[i].status = "Aprobado" THEN TotalOf(i) ELSE 0)
                + ApprovedRevenue(ids \ {i})

(* C16: in every dashboard answer, ventasTotales is the sum of formData.total
   over the records in the selected range and filters whose status is
   Aprobado; a record in another status adds nothing and an approved record
   without a total adds 0.  Three approved records with totals 100, 200 and
   300 give ventasTotales 600 and ticketPromedio 200. *)
C16_RevenueIsSumOfApprovedTotals ==
    DashboardAnswered =>
        /\ AnsweredKpis.ventasTotales = ApprovedRevenue(Selected(last.req.body))
        /\ ( /\ AnsweredKpis.fichasAprobadas = 3
             /\ { TotalOf(i) : i \in Selected(last.req.body) } = {100, 200, 300} )
           => /\ AnsweredKpis.ventasTotales = 600
              /\ AnsweredKpis.ticketPromedio = [num |-> 200, den |-> 1]

\* The three approved records with totals 100, 200 and 300, all in the range.
C16_Witness ==
    /\ DashboardAnswered
    /\ Len(affiliations) = 3
    /\ Selected(last.req.body) = {1, 2, 3}
    /\ \A i \in 1 .. 3 : affiliations[i].status = "Aprobado"
    /\ { TotalOf(i) : i \in 1 .. 3 } = {100, 200, 300}
    /\ AnsweredKpis.ventasTotales = 600
    /\ AnsweredKpis.ticketPromedio = [num |-> 200, den |-> 1]

\* The table a reference-data operation works on.
ReferenceTable(op) ==
    IF op \in {"createPlan", "updatePlan", "deletePlan"} THEN planes ELSE empresas

\* No two rows of the table hold the same value.
UniqueValues(table) ==
    \A r, s \in table : r.value = s.value => r = s

\* The request, carried out, would give two rows of its table the same value:
\* a create with a value that a row holds, or an update of an existing row to
\* a value that another row holds.
WouldDuplicate(req) ==
    /\ req.op \in {"createPlan", "updatePlan", "createEmpresa", "updateEmpresa"}
    /\ \A f \in DOMAIN req.body : req.body[f] \notin {Undefined, NULL, <<>>}
    /\ \E r \in ReferenceTable(req.op) :
          /\ r.value = req.body.value
          /\ req.op \in {"updatePlan", "updateEmpresa"} =>
                 /\ r.id # req.id
                 /\ \E s \in ReferenceTable(req.op) : s.id = req.id

(* C17: a create or an update of a plan or of a company that would give two
   rows of the table the same value is answered 409 and leaves both tables as
   they were; and after every step the values of the plans, and those of the
   companies, are pairwise different. *)
C17_DuplicateValueConflicts ==
    [][ /\ (last = NoResp /\ last' # NoResp /\ WouldDuplicate(last'.req))
           => last'.code = 409 /\ UNCHANGED <<planes, empresas>>
        /\ UniqueValues(planes') /\ UniqueValues(empresas')
      ]_vars

\* The rows of a table whose id the next state of the table no longer holds.
Removed(table, tableNext) ==
    { r \in table : \A s \in tableNext : s.id # r.id }

\* An existing affiliation references the plan / the company of the row.
ReferencesPlan(r) ==
    \E i \in 1 .. Len(affiliations) : affiliations[i].plan = r.value

ReferencesEmpresa(r) ==
    \E i \in 1 .. Len(affiliations) :
        /\ "empresa" \in DOMAIN affiliations[i].form_data
        /\ affiliations[i].form_data.empresa = r.value

(* C18: no step removes a plan or a company that an existing affiliation
   references (for a company: formData.empresa equal to its value), also when
   the affiliation was created while the delete request was in progress; and
   a delete request answered while its row is referenced is answered 409. *)
C18_ReferencedRowIsNotDeleted ==
    [][ /\ \A r \in Removed(planes, planes') : ~ReferencesPlan(r)
        /\ \A r \in Removed(empresas, empresas') : ~ReferencesEmpresa(r)
        /\ ( /\ last = NoResp
             /\ last' # NoResp
             /\ \/ /\ last'.req.op = "deletePlan"
                   /\ \E r \in planes : r.id = last'.req.id /\ ReferencesPlan(r)
                \/ /\ last'.req.op = "deleteEmpresa"
                   /\ \E r \in empresas : r.id = last'.req.id /\ ReferencesEmpresa(r) )
           => last'.code \in {403, 409}
      ]_vars

\* An update or a delete of a plan or a company names an id that no row of
\* its table has.
NamesMissingRow(req) ==
    /\ req.op \in {"updatePlan", "deletePlan", "updateEmpresa", "deleteEmpresa"}
    /\ \A r \in ReferenceTable(req.op) : r.id # req.id

(* C19: an update or a delete request of an ADMINISTRADOR for a plan or a
   company id that no row has (the update with a complete body) is answered
   404 and leaves both tables as they were. *)
C19_MissingIdNotFound ==
    [][ ( /\ last = NoResp
          /\ last' # NoResp
          /\ NamesMissingRow(last'.req)
          /\ last'.req.actor.role = "ADMINISTRADOR"
          /\ last'.req.op \in {"updatePlan", "updateEmpresa"} =>
                 \A f \in DOMAIN last'.req.body :
                     last'.req.body[f] \notin {Undefined, NULL, <<>>} )
        => last'.code = 404 /\ UNCHANGED <<planes, empresas>>
      ]_vars

\* The rows the step adds to the affiliations table.
Created == { affiliations'[i] : i \in (Len(affiliations) + 1) .. Len(affiliations') }

(* C20: every row a step adds to the affiliations table, by POST
   /api/affiliations or by POST /api/submit-ficha, is in status Abierta when
   the step ends, and its status_change_user_id, status_change_timestamp and
   rechazo_motivo are null. *)
C20_CreatedInAbierta ==
    [][ \A row \in Created :
            /\ row.status = "Abierta"
            /\ row.status_change_user_id = NoId
            /\ row.status_change_timestamp = NoId
            /\ row.rechazo_motivo = NULL ]_vars

\* The rows of a list answer come newest first / oldest first.
CreatedDescending(rows) ==
    \A i, j \in DOMAIN rows :
        i < j => rows[i].fecha_creacion >= rows[j].fecha_creacion

CreatedAscending(rows) ==
    \A i, j \in DOMAIN rows :
        i < j => rows[i].fecha_creacion <= rows[j].fecha_creacion

(* C21: a list request without sortBy and without descending is answered
   the rows newest first; a list request whose sortBy is outside the
   whitelist is answered as one sorted by fecha_creacion: the rows come in
   the order of their creation time, and the value gives no failure of the
   query. Requests whose page makes the OFFSET negative are left aside. *)
C21_DefaultNewestFirstAndWhitelist ==
    [][(/\ last = NoResp
        /\ last' # NoResp
        /\ last'.req.op \in {"list", "listDraft"}
        /\ last'.req.sortBy \notin OrderByMap
        /\ Offset(last'.req.page, last'.req.rowsPerPage) >= 0)
       => /\ last'.code = 200
          /\ CreatedDescending(last'.rows) \/ CreatedAscending(last'.rows)
          /\ last'.req.descending = "undefined" => CreatedDescending(last'.rows)]_vars

\* The text of a part of the holder's name in a formData document, empty for
\* a missing part; the value a column takes from a key, NULL for a missing key.
NamePart(formData, key) ==
    IF key \in DOMAIN formData THEN formData[key] ELSE <<>>

ColumnOf(formData, key) ==
    IF key \in DOMAIN formData THEN formData[key] ELSE NULL

(* C22: in every reachable state every affiliation's promoted columns are
   the ones its stored formData gives: titular_dni is formData.dniTitular,
   plan is formData.plan, and titular_nombre is the surname, a comma and a
   space, and the first name, a missing part being empty. *)
C22_PromotedColumnsAgree ==
    \A id \in 1 .. Len(affiliations) :
        LET row == affiliations[id] IN
        /\ row.titular_dni = ColumnOf(row.form_data, "dniTitular")
        /\ row.plan = ColumnOf(row.form_data, "plan")
        /\ row.titular_nombre =
              NamePart(row.form_data, "apellidoTitular") \o <<",", " ">>
                  \o NamePart(row.form_data, "nombreTitular")

\* A record was created from a formData without apellidoTitular, and a
\* status change has since been written to it.
C22_Witness ==
    \E id \in 1 .. Len(affiliations) :
        /\ "apellidoTitular" \notin DOMAIN affiliations[id].form_data
        /\ affiliations[id].titular_nombre = <<",", " ", "b", "o">>
        /\ affiliations[id].status = "Aprobado"

(* C23: the write step of a status-change request changes the record, and
   is answered with success, only when the record's status is Presentado at
   the moment of the write; so of two status-change requests on one
   Presentado record whose reads both precede the writes, at most one
   modifies the record and at most one is answered 200. *)
C23_StatusWriteIsConditional ==
    [][\A p \in Slots :
          (/\ inflight[p].phase = "write"
           /\ inflight[p].req.op \in StatusOps
           /\ inflight'[p] = Idle
           /\ (affiliations' # affiliations \/ last'.code = 200))
          => affiliations[inflight[p].req.id].status = "Presentado"]_vars

(* C24: present, as the contract has it: on a record in Abierta, with a
   numeroSolicitud, by a caller who may edit the record, the request is
   answered with success, and the write of a present request answered with
   success changes the record's status to Presentado and the solicitud key
   of its formData and nothing else: the other keys of formData, every
   other column of the record, the timestamps among them, and every other
   record stay as they were. *)
C24_PresentChangesStatusAndSolicitudOnly ==
    [][/\ (/\ AnswersAtOnce
           /\ last'.req.op = "present"
           /\ ~Falsy(last'.req.numeroSolicitud)
           /\ RowExists(last'.req.id)
           /\ affiliations[last'.req.id].status = "Abierta"
           /\ MayEdit(last'.req))
          => last'.code = 200
       /\ \A p \in Slots :
            (/\ inflight[p].phase = "write"
             /\ inflight[p].req.op = "present"
             /\ inflight'[p] = Idle
             /\ last'.code = 200)
            => LET id == inflight[p].req.id
                   old == affiliations[id]
                   new == affiliations'[id]
               IN /\ Len(affiliations') = Len(affiliations)
                  /\ \A other \in 1 .. Len(affiliations) :
                        other # id => affiliations'[other] = affiliations[other]
                  /\ new.status = "Presentado"
                  /\ [new EXCEPT !.status = old.status,
                                 !.form_data = old.form_data] = old
                  /\ DOMAIN new.form_data = DOMAIN old.form_data \cup {"solicitud"}
                  /\ new.form_data["solicitud"] = inflight[p].req.numeroSolicitud
                  /\ \A k \in DOMAIN old.form_data :
                        k # "solicitud" => new.form_data[k] = old.form_data[k]]_vars

(* C25: when a handler of the PDF route finishes, on whichever path, every
   browser it launched is closed; and a PDF request for an id with no
   affiliation is answered 404 in the step that takes it, launches no
   browser and leaves nothing pending. *)
C25_BrowserClosedOnEveryPath ==
    [][/\ \A p \in Slots :
            (inflight[p].phase = "pdf" /\ inflight'[p] = Idle)
            => \A b \in 1 .. Len(browsers') :
                  browsers'[b].owner = p => ~browsers'[b].open
       /\ (/\ last = NoResp
           /\ last' # NoResp
           /\ last'.req.op = "pdf"
           /\ ~RowExists(last'.req.id))
          => /\ last'.code = 404
             /\ browsers' = browsers
             /\ inflight' = inflight]_vars

\* A PDF request failed after its browser was launched: it was answered 500,
\* its handler has finished, and the browser it launched is closed.
C25_Witness ==
    /\ last.req.op = "pdf"
    /\ last.code = 500
    /\ \A p \in Slots : inflight[p] = Idle
    /\ Len(browsers) = 1
    /\ ~browsers[1].open

(* C26: every request that has been handled has been sent a response: no
   handler ends without answering; and a create or submit-ficha request
   whose body has no formData, being no validation, authorization,
   not-found or conflict outcome, is answered 500. *)
C26_EveryRequestAnswered ==
    last # NoResp
        => /\ last.code # 0
           /\ (/\ last.req.op \in {"create", "submit-ficha"}
               /\ Authorize(AffiliationWriters, last.req.actor)
               /\ last.req.formData = UndefinedObject)
              => last.code = 500

\* What a status-change request writes: its status, its reason (null unless
\* it rejects) and its caller.
ReviewOf(r) ==
    <<r.newStatus,
      IF r.newStatus = "Rechazado" THEN r.motivo ELSE NULL,
      r.actor.userId>>

ReviewIn(row) == <<row.status, row.rechazo_motivo, row.status_change_user_id>>

(* C27: whenever the status, the rechazo_motivo or the status_change_user_id
   of a record changes, the step is the write of one status-change request
   on that record and leaves all three as that request gives them, so that
   they are never a mix of two requests, whatever the interleaving; and a
   status-change request answered with success is answered the status it
   wrote itself. *)
C27_ReviewFieldsFromOneRequest ==
    [][/\ \A id \in 1 .. Len(affiliations) :
            ReviewIn(affiliations'[id]) # ReviewIn(affiliations[id])
            => \E p \in Slots :
                  /\ inflight[p].phase = "write"
                  /\ inflight[p].req.op \in StatusOps
                  /\ inflight[p].req.id = id
                  /\ inflight'[p] = Idle
                  /\ ReviewIn(affiliations'[id]) = ReviewOf(inflight[p].req)
       /\ (/\ last = NoResp
           /\ last' # NoResp
           /\ last'.req.op \in StatusOps
           /\ last'.code = 200)
          => /\ last'.newStatus = JsStr(last'.req.newStatus)
             /\ ReviewIn(affiliations'[last'.req.id]) = ReviewOf(last'.req)]_vars

\* Two status changes were written to one record, a rejection first: the
\* record is Aprobado with no reason, by ADMINISTRADOR 5, who was answered so.
C27_Witness ==
    /\ last.req.op = "status"
    /\ last.code = 200
    /\ last.req.actor.userId = 5
    /\ last.newStatus = JsStr("Aprobado")
    /\ RowExists(last.req.id)
    /\ ReviewIn(affiliations[last.req.id]) = <<"Aprobado", NULL, 5>>
    /\ affiliations[last.req.id].status_change_timestamp = 3

(* C28: an update and a present on one record in Abierta, each by a caller
   who may edit it, are both taken from their read to their write; the
   write of an update lands only on a record still in Abierta, never after
   the status became Presentado; and a solicitud number once in a record's
   formData stays there with its value. *)
C28_UpdateNeverOverwritesPresented ==
    [][/\ (/\ AnswersAtOnce
           /\ last'.req.op \in {"update", "present"}
           /\ last'.req.op = "update" => last'.req.formData # UndefinedObject
           /\ last'.req.op = "present" => ~Falsy(last'.req.numeroSolicitud)
           /\ RowExists(last'.req.id)
           /\ affiliations[last'.req.id].status = "Abierta"
           /\ MayEdit(last'.req))
          => last'.code \notin {403, 409}
       /\ \A p \in Slots :
            (/\ inflight[p].phase = "write"
             /\ inflight[p].req.op = "update"
             /\ inflight'[p] = Idle)
            => affiliations[inflight[p].req.id].status = "Abierta"
       /\ \A id \in 1 .. Len(affiliations) :
            "solicitud" \in DOMAIN affiliations[id].form_data
            => /\ "solicitud" \in DOMAIN affiliations'[id].form_data
               /\ affiliations'[id].form_data["solicitud"]
                      = affiliations[id].form_data["solicitud"]]_vars

\* Request r names an existing affiliation that another user created.
ForeignRow(r) ==
    RowExists(r.id) /\ affiliations[r.id].user_id # r.actor.userId

(* C29: what a VENDEDOR obtains from the listing, the detail, the PDF and
   the photo upload does not depend on the affiliations of other users: a
   list answer carries rows of the caller only; a detail or PDF request on
   another user's affiliation is answered as one on a missing id, 404 with
   nothing of the record, and is taken no further; and a photo upload never
   attaches a photo to another user's affiliation. *)
C29_VendorConfinedToOwnRows ==
    [][/\ (/\ last = NoResp
           /\ last' # NoResp
           /\ last'.req.actor.role = "VENDEDOR"
           /\ last'.req.op = "list")
          => \A i \in 1 .. Len(last'.rows) : last'.rows[i].id \in OwnIds(last'.req)
       /\ (/\ last = NoResp
           /\ last' # NoResp
           /\ last'.req.actor.role = "VENDEDOR"
           /\ last'.req.op \in {"detail", "pdf", "fotos"}
           /\ ForeignRow(last'.req))
          => /\ last'.req.op \in {"detail", "pdf"} => last'.code = 404
             /\ last'.details = UndefinedObject
             /\ fotos' = fotos
       /\ \A p \in Slots :
            (/\ inflight[p] = Idle
             /\ inflight'[p] # Idle
             /\ inflight'[p].req.actor.role = "VENDEDOR"
             /\ inflight'[p].req.op \in {"detail", "pdf"})
            => ~ForeignRow(inflight'[p].req)]_vars

\* A step in which a route behind authenticateToken takes a request: it is
\* answered at once or left awaiting in a slot.
TakesRequest ==
    /\ last = NoResp
    /\ \/ /\ last' # NoResp
          /\ inflight' = inflight
          /\ last'.req.op \notin {"login", "unauthenticated"}
       \/ \E p \in Slots : inflight[p] = Idle /\ inflight'[p] # Idle

\* authorize turned request r away.
DeniedByRole(r) ==
    /\ last' # NoResp
    /\ last'.req = r
    /\ last'.code = 403
    /\ last'.message = "Acceso denegado: no tienes los permisos necesarios."

\* The detail query finds the row of request r for a caller of r's role and
\* userId.
DetailVisibleTo(r) ==
    /\ RowExists(r.id)
    /\ \E u \in users : u.id = affiliations[r.id].user_id
    /\ r.actor.role = "VENDEDOR" => affiliations[r.id].user_id = r.actor.userId

(* C30: every request a protected route takes carries the userId and role
   of a token that a login handed out and that has not expired; it is
   turned away with 403 "Acceso denegado" exactly when that role is outside
   the allow-list of the operation, whatever the users table holds for the
   caller at that time, be it another role or no row at all; the detail
   query is scoped by the token's role and userId; and a submitted record
   is stored under the token's userId. *)
C30_TokenDecidesRoleAndScope ==
    [][TakesRequest =>
          /\ \E t \in tokens :
                /\ now < t.exp
                /\ t.payload.userId = Taken.actor.userId
                /\ t.payload.role = Taken.actor.role
          /\ DeniedByRole(Taken) <=> Taken.actor.role \notin AllowedRoles(Taken.op)
          /\ Taken.op = "detail" => (last' = NoResp <=> DetailVisibleTo(Taken))
          /\ affiliations' # affiliations =>
                affiliations'[Len(affiliations')].user_id = Taken.actor.userId
      ]_vars

\* The detail of a record was sent to a caller whose token says VENDEDOR
\* after the users table had come to hold another role for that caller.
C30_Witness ==
    /\ last # NoResp
    /\ last.req.op = "detail"
    /\ last.code = 200
    /\ last.details # UndefinedObject
    /\ last.req.actor.role = "VENDEDOR"
    /\ \E u \in users : u.id = last.req.actor.userId /\ u.role # "VENDEDOR"
    /\ \E t \in tokens : t.payload.userId = last.req.actor.userId /\ now < t.exp

============================================================================
